---- MODULE Spec2Model ----
(***************************************************************************)
(* Verification model of the TON <-> ETH bridge relay.                     *)
(*                                                                         *)
(* Part I   GraphQlAccountSubscription: send_message callers, the          *)
(*          background polling loop and the node (specifications Spec,     *)
(*          FairSpec).                                                     *)
(* Part II  make_external_header and the contract wrappers (HeaderSpec).   *)
(* Part III EventsScanner, the rescan stream (ScanSpec).                   *)
(* Part IV  TonSwapBackEvents as a stream (StreamSpec).                    *)
(* Part V   The wire codec between E-ABI and T-ABI values (CodecSpec).     *)
(***************************************************************************)
EXTENDS Integers, Naturals, Sequences, FiniteSets, TLC

(***************************************************************************)
(* Bounds of the model.                                                    *)
(***************************************************************************)
\* block generation times range over 0..MaxTime
MaxTime == 2
\* at most MaxTxs transactions of the account in one block
MaxTxs == 2
\* block ids are drawn cyclically from 0..NumBlockIds-1: the loop only ever
\* compares its cursor with the id of the block following it
NumBlockIds == 2
\* the count of blocks processed after the last handle was dropped saturates here
MaxAfterDrop == 2

Callers == {"c1", "c2"}
Hashes == {"h1", "h2"}
\* header.expire values the callers' messages carry
Expires == 1..(MaxTime - 1)

NoEntry == [none |-> TRUE]
NoBlock == [none |-> TRUE]
NoMsg == "no_in_msg"
NoCall == [hash |-> "-", expire |-> 0, run_local |-> FALSE]

VARIABLES
    \* GraphQlAccountSubscription
    pending_messages,   \* hash -> NoEntry | [expires_at, tx]: tx is the caller holding the receiver
    pending_lock,       \* [writer, readers] of the RwLock around pending_messages
    current_time,       \* <<end_lt, gen_utime>> of the last fully processed block
    handle,             \* caller -> it still holds its Arc of the subscription
    \* the spawned polling task (start_loop)
    lpc,                \* "top" | "waitBlock" | "getBlock" | "wantLock" | "wantTime" | "stopped"
    api_error_occurred,
    last_block_id,
    loop_strong,        \* the loop holds the upgraded Arc of the running iteration
    \* send_message callers
    cpc,                \* caller -> "idle" | "wantLock" | "sending" | "awaitAck" | "waiting" | "returned"
    cmsg,               \* caller -> the ExternalMessage of the call: [hash, expire, run_local]
    cres,               \* caller -> the value the call returned
    chan,               \* caller -> state of the call's oneshot channel
    \* the node
    node_inbox,         \* hashes of messages the node received and has not yet put in a block
    node_block,         \* the block following last_block_id, once the loop has seen it
    \* history
    fate,               \* caller -> what happened to the pending entry of the current call
    blk_start,          \* pending_messages when the loop took the lock for the block in progress
    blk_landed,         \* hashes whose pending entry landed in the block in progress
    after_drop,         \* blocks processed since the last owner dropped its handle
    \* Part II: the message being built
    hdr,
    \* Part III: the EventsScanner, its node and its consumer
    scan,
    \* Part IV: the TonSwapBackEvents stream and its events channel
    strm,
    \* Part V: the value being translated
    codec

subVars == <<pending_messages, pending_lock, current_time, handle, lpc,
             api_error_occurred, last_block_id, loop_strong, cpc, cmsg, cres,
             chan, node_inbox, node_block, fate, blk_start,
             blk_landed, after_drop>>

\* what the actions of Part I leave alone
subRest == <<hdr, scan, strm, codec>>

vars == <<subVars, hdr, scan, strm, codec>>

(***************************************************************************)
(* tokio::sync::RwLock                                                     *)
(***************************************************************************)
FreeLock == [writer |-> "none", readers |-> {}]

CanWrite(lock) == lock.writer = "none" /\ lock.readers = {}

WriteLocked(lock, task) == [lock EXCEPT !.writer = task]

Unlocked(lock, task) ==
    [writer |-> IF lock.writer = task THEN "none" ELSE lock.writer,
     readers |-> lock.readers \ {task}]

(***************************************************************************)
(* PendingMessage and its oneshot channel                                  *)
(***************************************************************************)
\* PendingMessage::new(expires_at, abi, tx)
NewPendingMessage(expires_at, caller) == [expires_at |-> expires_at, tx |-> caller]

\* pending_message.set_result(result): the result goes into the oneshot channel
SetResult(ch, entry, result) == [ch EXCEPT ![entry.tx] = result]

\* a receiver that takes a default output when the sender is gone
RxAwaitDefault(v) == IF v = "closed" THEN "ok" ELSE v

\* rx.await.unwrap_or_else(..): a closed channel is an ApiFailure
RxAwait(v) == IF v = "closed" THEN "api_failure" ELSE v

(***************************************************************************)
(* The node: blocks of the subscribed account                              *)
(***************************************************************************)
NextId(id) == (id + 1) % NumBlockIds

Range(s) == {s[i] : i \in DOMAIN s}

\* a transaction of the account, by the hash of its inbound message (if any)
Txs(inbox) == [in_msg : inbox \cup {NoMsg}]

\* an external message is taken from the inbox once
TxSeqs(inbox) ==
    {s \in UNION {[1..n -> Txs(inbox)] : n \in 0..MaxTxs} :
        \A i, j \in DOMAIN s : (i # j /\ s[i].in_msg # NoMsg) => s[i].in_msg # s[j].in_msg}

InMsgs(txs) == {txs[i].in_msg : i \in DOMAIN txs} \ {NoMsg}

\* the blocks the node may produce after block `last`, whose generation time was
\* `utime`, from the messages it holds
NewBlocks(last, utime, inbox) ==
    [id : {NextId(last)}, gen_utime : utime..MaxTime, txs : TxSeqs(inbox)]

(***************************************************************************)
(* start_loop: the spawned polling task                                    *)
(***************************************************************************)
\* a loop that keeps a strong Arc instead of a Weak always upgrades
UpgradeStrong(strong_count) == TRUE

\* the tasks holding a strong handle, and the strong count the loop's Weak sees
Owners == {c \in Callers : handle[c]}

StrongCount == Cardinality(Owners) + (IF loop_strong THEN 1 ELSE 0)

\* subscription.upgrade(): succeeds while a strong handle exists
Upgrade(strong_count) == strong_count > 0

LoopUpgrade ==
    /\ lpc = "top"
    /\ Upgrade(StrongCount)
    /\ loop_strong' = TRUE
    /\ api_error_occurred' = FALSE      \* sleep(retry_delay) when it was set
    /\ lpc' = "waitBlock"
    /\ UNCHANGED <<pending_messages, pending_lock, current_time, handle,
                   last_block_id, cpc, cmsg, cres, chan, node_inbox, node_block, fate, blk_start, blk_landed, after_drop>>
    /\ UNCHANGED subRest

LoopStop ==
    /\ lpc = "top"
    /\ ~Upgrade(StrongCount)
    /\ lpc' = "stopped"
    /\ UNCHANGED <<pending_messages, pending_lock, current_time, handle,
                   api_error_occurred, last_block_id, loop_strong, cpc, cmsg,
                   cres, chan, node_inbox, node_block, fate,
                   blk_start, blk_landed, after_drop>>
    /\ UNCHANGED subRest

LoopApiErrorSkipsBlock(at) ==
    /\ lpc = at
    /\ api_error_occurred' = TRUE
    /\ loop_strong' = FALSE
    /\ lpc' = "top"
    /\ last_block_id' = NextId(last_block_id)
    /\ node_block' = NoBlock
    /\ UNCHANGED <<pending_messages, pending_lock, current_time, handle,
                   cpc, cmsg, cres, chan, node_inbox, fate, blk_start, blk_landed, after_drop>>
    /\ UNCHANGED subRest

\* `continue 'subscription_loop` after an API failure
LoopApiError(at) ==
    /\ lpc = at
    /\ api_error_occurred' = TRUE
    /\ loop_strong' = FALSE
    /\ lpc' = "top"
    /\ UNCHANGED <<pending_messages, pending_lock, current_time, handle,
                   last_block_id, cpc, cmsg, cres, chan, node_inbox, node_block, fate, blk_start, blk_landed, after_drop>>
    /\ UNCHANGED subRest

\* wait_for_next_block returns the id of the block following last_block_id; the
\* node decides that block's content no later than here and never changes it
LoopWaitNextBlock ==
    /\ lpc = "waitBlock"
    /\ IF node_block = NoBlock
       THEN \E b \in NewBlocks(last_block_id, current_time[2], node_inbox) :
                /\ node_block' = b
                /\ node_inbox' = node_inbox \ InMsgs(b.txs)
       ELSE UNCHANGED <<node_block, node_inbox>>
    /\ lpc' = "getBlock"
    /\ UNCHANGED <<pending_messages, pending_lock, current_time, handle,
                   api_error_occurred, last_block_id, loop_strong, cpc, cmsg,
                   cres, chan, fate, blk_start, blk_landed, after_drop>>
    /\ UNCHANGED subRest

\* wait_for_next_block fails or times out
LoopWaitNextBlockErr == LoopApiError("waitBlock")

\* get_block returns the block and block.info is read
LoopGetBlock ==
    /\ lpc = "getBlock"
    /\ lpc' = "wantLock"
    /\ UNCHANGED <<pending_messages, pending_lock, current_time, handle,
                   api_error_occurred, last_block_id, loop_strong, cpc, cmsg,
                   cres, chan, node_inbox, node_block, fate, blk_start,
                   blk_landed, after_drop>>
    /\ UNCHANGED subRest

\* get_block fails, or block.info cannot be read
LoopGetBlockErr == LoopApiError("getBlock")

\* lines 286-306: a transaction whose in_msg is pending takes the entry out of
\* the map and delivers the result of process_out_messages, an error for the
\* transactions in `failed`
HandleTransactionKeepsEntry(st, tx, failed) ==
    IF tx.in_msg # NoMsg /\ st.pending[tx.in_msg] # NoEntry
    THEN LET entry == st.pending[tx.in_msg] IN
         [pending |-> st.pending,
          chan |-> SetResult(st.chan, entry, IF tx.in_msg \in failed THEN "err" ELSE "ok"),
          fate |-> [st.fate EXCEPT ![entry.tx] = "landed"],
          landed |-> st.landed \cup {tx.in_msg}]
    ELSE st

HandleTransactionExpiryFirst(st, tx, failed) ==
    IF /\ tx.in_msg # NoMsg
       /\ st.pending[tx.in_msg] # NoEntry
       /\ node_block.gen_utime <= st.pending[tx.in_msg].expires_at
    THEN LET entry == st.pending[tx.in_msg] IN
         [pending |-> [st.pending EXCEPT ![tx.in_msg] = NoEntry],
          chan |-> SetResult(st.chan, entry, IF tx.in_msg \in failed THEN "err" ELSE "ok"),
          fate |-> [st.fate EXCEPT ![entry.tx] = "landed"],
          landed |-> st.landed \cup {tx.in_msg}]
    ELSE st

HandleTransaction(st, tx, failed) ==
    IF tx.in_msg # NoMsg /\ st.pending[tx.in_msg] # NoEntry
    THEN LET entry == st.pending[tx.in_msg] IN
         [pending |-> [st.pending EXCEPT ![tx.in_msg] = NoEntry],
          chan |-> SetResult(st.chan, entry, IF tx.in_msg \in failed THEN "err" ELSE "ok"),
          fate |-> [st.fate EXCEPT ![entry.tx] = "landed"],
          landed |-> st.landed \cup {tx.in_msg}]
    ELSE st

\* the `for item in data.transactions().iter()` loop over the first n transactions
RECURSIVE ProcessTransactions(_, _, _, _)
ProcessTransactions(txs, n, st, failed) ==
    IF n = 0 THEN st
    ELSE HandleTransaction(ProcessTransactions(txs, n - 1, st, failed), txs[n], failed)

\* what parsing the fetched block gives: 0 = everything parses, k = transaction k
\* cannot be parsed, -1 = the account blocks of block.extra cannot be read
ParseOutcomes(block) == (-1)..Len(block.txs)

\* retain with a strict comparison drops a message in the second it expires
KeepStrict(gen_utime, message) == gen_utime < message.expires_at

\* retain that never expires anything
KeepAll(gen_utime, message) == TRUE

\* pending_messages.retain(|_, message| gen_utime <= message.expires_at())
Keep(gen_utime, message) == gen_utime <= message.expires_at

Retain(pending, gen_utime) ==
    [h \in Hashes |->
        IF pending[h] # NoEntry /\ Keep(gen_utime, pending[h]) THEN pending[h] ELSE NoEntry]

Dropped(pending, gen_utime) ==
    {h \in Hashes : pending[h] # NoEntry /\ ~Keep(gen_utime, pending[h])}

\* a guard handed out without waiting for the holder
AcquireWriteUnguarded(lock) == TRUE

\* acquiring a write guard: tokio grants it only when nobody holds the lock
AcquireWrite(lock) == CanWrite(lock)

\* lines 249-330: the write guard is taken and the block's transactions are matched
LoopProcessBlock ==
    /\ lpc = "wantLock"
    /\ AcquireWrite(pending_lock)
    /\ \E parse \in ParseOutcomes(node_block), failed \in SUBSET InMsgs(node_block.txs) :
        LET n == IF parse = 0 THEN Len(node_block.txs)
                 ELSE IF parse = -1 THEN 0 ELSE parse - 1
            st == ProcessTransactions(node_block.txs, n,
                      [pending |-> pending_messages, chan |-> chan,
                       fate |-> fate, landed |-> {}], failed)
        IN /\ pending_messages' = st.pending
           /\ chan' = st.chan
           /\ fate' = st.fate
           /\ IF parse = 0
              THEN /\ pending_lock' = WriteLocked(pending_lock, "loop")
                   /\ lpc' = "wantTime"
                   /\ blk_start' = pending_messages
                   /\ blk_landed' = st.landed
                   /\ UNCHANGED loop_strong
              ELSE \* continue 'subscription_loop: the guard and the Arc are dropped
                   /\ lpc' = "top"
                   /\ loop_strong' = FALSE
                   /\ UNCHANGED <<pending_lock, blk_start, blk_landed>>
    /\ after_drop' = IF Owners = {} /\ after_drop < MaxAfterDrop
                     THEN after_drop + 1 ELSE after_drop
    /\ UNCHANGED <<current_time, handle, api_error_occurred, last_block_id, cpc,
                   cmsg, cres, node_inbox, node_block>>
    /\ UNCHANGED subRest

\* lines 341-352: publish the block's time, drop what expired, advance the cursor
LoopFinishBlock ==
    /\ lpc = "wantTime"
    /\ LET g == node_block.gen_utime
           gone == Dropped(pending_messages, g)
       IN /\ current_time' = <<node_block.id, g>>
          /\ pending_messages' = Retain(pending_messages, g)
          /\ chan' = [c \in Callers |->
                        IF \E h \in gone : pending_messages[h].tx = c
                        THEN "closed" ELSE chan[c]]
          /\ fate' = [c \in Callers |->
                        IF \E h \in gone : pending_messages[h].tx = c
                        THEN "discarded" ELSE fate[c]]
    /\ last_block_id' = node_block.id
    /\ node_block' = NoBlock
    /\ pending_lock' = Unlocked(pending_lock, "loop")
    /\ loop_strong' = FALSE
    /\ lpc' = "top"
    /\ blk_start' = [h \in Hashes |-> NoEntry]
    /\ blk_landed' = {}
    /\ UNCHANGED <<handle, api_error_occurred, cpc, cmsg, cres, node_inbox, after_drop>>
    /\ UNCHANGED subRest

(***************************************************************************)
(* send_message                                                            *)
(***************************************************************************)
Active(c) == cpc[c] \notin {"idle", "returned"}

\* a task calls send_message through a handle it owns
CallSendMessage(c) ==
    /\ cpc[c] = "idle"
    /\ handle[c]
    /\ \E h \in Hashes, e \in Expires :
        cmsg' = [cmsg EXCEPT ![c] = [hash |-> h, expire |-> e, run_local |-> FALSE]]
    /\ cpc' = [cpc EXCEPT ![c] = "wantLock"]
    /\ UNCHANGED <<pending_messages, pending_lock, current_time, handle, lpc,
                   api_error_occurred, last_block_id, loop_strong, cres, chan,
                   node_inbox, node_block, fate, blk_start,
                   blk_landed, after_drop>>
    /\ UNCHANGED subRest

\* lines 404-406: a message marked run_local is executed locally and returns
CallRunLocal(c) ==
    /\ cpc[c] = "idle"
    /\ handle[c]
    /\ \E r \in {"local_ok", "local_err"} : cres' = [cres EXCEPT ![c] = r]
    /\ cpc' = [cpc EXCEPT ![c] = "returned"]
    /\ UNCHANGED <<pending_messages, pending_lock, current_time, handle, lpc,
                   api_error_occurred, last_block_id, loop_strong, cmsg, chan,
                   node_inbox, node_block, fate, blk_start,
                   blk_landed, after_drop>>
    /\ UNCHANGED subRest

\* an insert that does not look at the entry
VacantAlways(pending, hash) == TRUE

\* hash_map::Entry::Vacant / Occupied
Vacant(pending, hash) == pending[hash] = NoEntry

\* lines 420-433: the write guard is taken and the entry of the hash looked up
SendLock(c) ==
    /\ cpc[c] = "wantLock"
    /\ AcquireWrite(pending_lock)
    /\ IF Vacant(pending_messages, cmsg[c].hash)
       THEN /\ pending_lock' = WriteLocked(pending_lock, c)
            /\ cpc' = [cpc EXCEPT ![c] = "sending"]
            /\ chan' = [chan EXCEPT ![c] = "open"]
            /\ UNCHANGED <<cres, cmsg>>
       ELSE /\ cres' = [cres EXCEPT ![c] = "duplicate"]
            /\ cpc' = [cpc EXCEPT ![c] = "returned"]
            /\ cmsg' = [cmsg EXCEPT ![c] = NoCall]
            /\ UNCHANGED <<pending_lock, chan>>
    /\ UNCHANGED <<pending_messages, current_time, handle, lpc,
                   api_error_occurred, last_block_id, loop_strong,
                   node_inbox, node_block, fate, blk_start,
                   blk_landed, after_drop>>
    /\ UNCHANGED subRest

\* send_message_raw: the node receives the message
SendRawDeliver(c) ==
    /\ cpc[c] = "sending"
    /\ node_inbox' = node_inbox \cup {cmsg[c].hash}
    /\ cpc' = [cpc EXCEPT ![c] = "awaitAck"]
    /\ UNCHANGED <<pending_messages, pending_lock, current_time, handle, lpc,
                   api_error_occurred, last_block_id, loop_strong, cmsg, cres,
                   chan, node_block, fate, blk_start, blk_landed,
                   after_drop>>
    /\ UNCHANGED subRest

\* send_message_raw returned Ok: entry.insert(PendingMessage::new(..)), guard dropped
SendRawOk(c) ==
    /\ cpc[c] = "awaitAck"
    /\ pending_messages' = [pending_messages EXCEPT
            ![cmsg[c].hash] = NewPendingMessage(cmsg[c].expire, c)]
    /\ pending_lock' = Unlocked(pending_lock, c)
    /\ cpc' = [cpc EXCEPT ![c] = "waiting"]
    /\ UNCHANGED <<current_time, handle, lpc, api_error_occurred, last_block_id,
                   loop_strong, cmsg, cres, chan, node_inbox, node_block, fate, blk_start, blk_landed, after_drop>>
    /\ UNCHANGED subRest

\* send_message_raw returned Err (before or after the node got the message): `?`
SendRawErr(c) ==
    /\ cpc[c] \in {"sending", "awaitAck"}
    /\ cres' = [cres EXCEPT ![c] = "send_failed"]
    /\ chan' = [chan EXCEPT ![c] = "none"]
    /\ pending_lock' = Unlocked(pending_lock, c)
    /\ cpc' = [cpc EXCEPT ![c] = "returned"]
    /\ cmsg' = [cmsg EXCEPT ![c] = NoCall]
    /\ UNCHANGED <<pending_messages, current_time, handle, lpc,
                   api_error_occurred, last_block_id, loop_strong,
                   node_inbox, node_block, fate, blk_start,
                   blk_landed, after_drop>>
    /\ UNCHANGED subRest

\* lines 437-441: rx.await
Receive(c) ==
    /\ cpc[c] = "waiting"
    /\ chan[c] \in {"ok", "err", "closed"}
    /\ cres' = [cres EXCEPT ![c] = RxAwait(chan[c])]
    /\ cpc' = [cpc EXCEPT ![c] = "returned"]
    /\ cmsg' = [cmsg EXCEPT ![c] = NoCall]
    /\ UNCHANGED <<pending_messages, pending_lock, current_time, handle, lpc,
                   api_error_occurred, last_block_id, loop_strong, chan,
                   node_inbox, node_block, fate, blk_start,
                   blk_landed, after_drop>>
    /\ UNCHANGED subRest

\* the caller takes the returned value and may call again
CallDone(c) ==
    /\ cpc[c] = "returned"
    /\ cpc' = [cpc EXCEPT ![c] = "idle"]
    /\ cres' = [cres EXCEPT ![c] = "none"]
    /\ chan' = [chan EXCEPT ![c] = "none"]
    /\ fate' = [fate EXCEPT ![c] = "none"]
    /\ UNCHANGED <<pending_messages, pending_lock, current_time, handle, lpc,
                   api_error_occurred, last_block_id, loop_strong, cmsg,
                   node_inbox, node_block, blk_start, blk_landed, after_drop>>
    /\ UNCHANGED subRest

(***************************************************************************)
(* Handles to the subscription (Arc<GraphQlAccountSubscription>)           *)
(***************************************************************************)
\* a task drops its handle; a call in progress borrows the handle
DropHandle(c) ==
    /\ handle[c]
    /\ cpc[c] = "idle"
    /\ handle' = [handle EXCEPT ![c] = FALSE]
    /\ UNCHANGED <<pending_messages, pending_lock, current_time, lpc,
                   api_error_occurred, last_block_id, loop_strong, cpc, cmsg,
                   cres, chan, node_inbox, node_block, fate, blk_start,
                   blk_landed, after_drop>>
    /\ UNCHANGED subRest

(***************************************************************************)
(* Specification of the subscription                                       *)
(***************************************************************************)
\* GraphQlAccountSubscription::new
SubInitWith(handles) ==
    /\ pending_messages = [h \in Hashes |-> NoEntry]
    /\ pending_lock = FreeLock
    /\ current_time = <<0, 0>>
    /\ handle = handles
    /\ lpc = "top"
    /\ api_error_occurred = FALSE
    /\ last_block_id = 0
    /\ loop_strong = FALSE
    /\ cpc = [c \in Callers |-> "idle"]
    /\ cmsg = [c \in Callers |-> NoCall]
    /\ cres = [c \in Callers |-> "none"]
    /\ chan = [c \in Callers |-> "none"]
    /\ node_inbox = {}
    /\ node_block = NoBlock
    /\ fate = [c \in Callers |-> "none"]
    /\ blk_start = [h \in Hashes |-> NoEntry]
    /\ blk_landed = {}
    /\ after_drop = 0

SubInit == SubInitWith([c \in Callers |-> TRUE])

\* the other parts at rest
Idle == [pc |-> "idle"]

RestIdle == hdr = Idle /\ scan = Idle /\ strm = Idle /\ codec = Idle

Init == SubInit /\ RestIdle

Next ==
    \/ LoopUpgrade
    \/ LoopStop
    \/ LoopWaitNextBlock
    \/ LoopWaitNextBlockErr
    \/ LoopGetBlock
    \/ LoopGetBlockErr
    \/ LoopProcessBlock
    \/ LoopFinishBlock
    \/ \E c \in Callers : DropHandle(c)
    \/ \E c \in Callers : CallSendMessage(c)
    \/ \E c \in Callers : CallRunLocal(c)
    \/ \E c \in Callers : SendLock(c)
    \/ \E c \in Callers : SendRawDeliver(c)
    \/ \E c \in Callers : SendRawOk(c)
    \/ \E c \in Callers : SendRawErr(c)
    \/ \E c \in Callers : Receive(c)
    \/ \E c \in Callers : CallDone(c)

Spec == Init /\ [][Next]_vars

(***************************************************************************)
(* Fairness.  The executor polls every ready task (WF).  tokio's RwLock    *)
(* queues its waiters, so a task that asks for the guard gets it although  *)
(* others take it in between (SF).  The remaining conditions are the       *)
(* environment the liveness claims assume: the node keeps answering, its   *)
(* blocks parse, and block time moves on.                                  *)
(***************************************************************************)
LoopProcessBlockOk == LoopProcessBlock /\ lpc' = "wantTime"

LoopNextBlockLater ==
    LoopWaitNextBlock /\ node_block = NoBlock /\ node_block'.gen_utime > current_time[2]

Fairness ==
    /\ WF_vars(LoopUpgrade)
    /\ WF_vars(LoopStop)
    /\ WF_vars(LoopWaitNextBlock \/ LoopWaitNextBlockErr)
    /\ WF_vars(LoopGetBlock \/ LoopGetBlockErr)
    /\ SF_vars(LoopGetBlock)
    /\ WF_vars(LoopFinishBlock)
    /\ SF_vars(LoopWaitNextBlock)
    /\ SF_vars(LoopNextBlockLater)
    /\ SF_vars(LoopProcessBlockOk)
    /\ \A c \in Callers :
        /\ WF_vars(SendRawDeliver(c) \/ SendRawErr(c))
        /\ WF_vars(SendRawOk(c) \/ SendRawErr(c))
        /\ WF_vars(Receive(c))

\* the liveness claims are checked from the state in which the tasks other than
\* FairCaller have already dropped their handles
FairCaller == "c1"

FairInit == SubInitWith([c \in Callers |-> c = FairCaller]) /\ RestIdle

FairSpec == FairInit /\ [][Next]_vars /\ Fairness

(***************************************************************************)
(* Claims about the subscription                                           *)
(***************************************************************************)

\* C1: a non-local send_message whose hash is already a key of the pending map
\* fails at once with "duplicate message hash": it returns that error in the
\* step that looks the entry up, nothing is transmitted to the node, and the
\* pending map (the entry's expiry and its result channel) is left as it was.
C1_DuplicateFailsFast ==
    [][\A c \in Callers :
          (cpc[c] = "wantLock" /\ cpc'[c] # "wantLock"
              /\ pending_messages[cmsg[c].hash] # NoEntry)
          => /\ cpc'[c] = "returned"
             /\ cres'[c] = "duplicate"
             /\ pending_messages' = pending_messages
             /\ node_inbox' = node_inbox
             /\ chan' = chan]_vars

\* a caller got the duplicate error while the first sender of the hash still waits
C1_Witness ==
    \E c, d \in Callers, h \in Hashes :
        /\ c # d
        /\ cpc[c] = "returned" /\ cres[c] = "duplicate"
        /\ cpc[d] = "waiting" /\ cmsg[d].hash = h
        /\ pending_messages[h] # NoEntry /\ pending_messages[h].tx = d

\* C2: a non-local send_message returns a successful output only if the loop
\* saw a transaction whose in_msg hash is the message's while its entry was
\* pending; an entry discarded without a result gives the caller a transport
\* failure (ApiFailure), never a success.
C2_SuccessOnlyIfLanded ==
    \A c \in Callers :
        cpc[c] = "returned" =>
            /\ cres[c] = "ok" => fate[c] = "landed"
            /\ fate[c] = "discarded" => cres[c] = "api_failure"

\* one caller returned the landed output, the other the failure of a dropped entry
C2_Witness ==
    \E c, d \in Callers :
        /\ cpc[c] = "returned" /\ cres[c] = "ok" /\ fate[c] = "landed"
        /\ cpc[d] = "returned" /\ cres[d] = "api_failure" /\ fate[d] = "discarded"

\* C3: when the loop finishes a block with generation time g, the pending map
\* holds no message with expires_at < g, and every message that was pending when
\* the block was taken up, did not land in it and has expires_at >= g (equality
\* included) is still in the map, unchanged.
C3_DroppedExactlyWhenExpired ==
    [][(lpc = "wantTime" /\ lpc' = "top") =>
          \A h \in Hashes :
              /\ pending_messages'[h] # NoEntry
                     => pending_messages'[h].expires_at >= node_block.gen_utime
              /\ (blk_start[h] # NoEntry /\ h \notin blk_landed
                     /\ blk_start[h].expires_at >= node_block.gen_utime)
                     => pending_messages'[h] = blk_start[h]]_vars

\* a block was finished in which an expired message was dropped
C3_Witness ==
    /\ lpc = "top"
    /\ \E c \in Callers :
        /\ fate[c] = "discarded" /\ chan[c] = "closed"
        /\ cmsg[c].expire < current_time[2]

\* C5: the pending map is only touched under its write guard: no two tasks (two
\* send_message callers, or a caller and the loop) are inside the guarded
\* section at once, whoever is inside is the writer of the lock, and nobody
\* holds a read guard while a writer is inside.
InGuard(c) == cpc[c] \in {"sending", "awaitAck"}

C4_TransmittedCallReturns ==
    \A c \in Callers : (cpc[c] = "waiting") ~> (cpc[c] = "returned")

\* a call returned the failure of an entry that expired before landing
C4_Witness ==
    \E c \in Callers :
        /\ cpc[c] = "returned" /\ cres[c] = "api_failure" /\ fate[c] = "discarded"
        /\ current_time[2] = MaxTime

\* C9: once every owner has dropped its handle the polling loop terminates: it
\* stops at the start of its next iteration, and it takes up no block after the
\* one of the iteration that was in progress.
C9_LoopStopsAfterLastDrop ==
    /\ (Owners = {}) ~> (lpc = "stopped")
    /\ [](after_drop <= 1)
    /\ [][lpc = "top" /\ Owners = {} => lpc' \in {"top", "stopped"}]_vars

\* the loop stopped, having finished the block it was at when the last handle went
C9_Witness ==
    /\ lpc = "stopped"
    /\ Owners = {}
    /\ after_drop = 1

(***************************************************************************)
(* Part II.  make_external_header and the contract wrappers                *)
(*                                                                         *)
(* u64 and u32 values are little-endian sequences of 16-bit limbs (four    *)
(* limbs for u64, two for u32), so that the arithmetic keeps the widths of *)
(* the code.                                                               *)
(***************************************************************************)
Limb == 2^16

\* a small u32 as limbs
U32(n) == <<n % Limb, n \div Limb>>

\* `x as u64` of a u32
AsU64(x) == x \o <<0, 0>>

\* the saturating cast, which the code does not use
AsU32Saturating(x) ==
    IF x[3] = 0 /\ x[4] = 0 THEN SubSeq(x, 1, 2) ELSE <<Limb - 1, Limb - 1>>

\* `x as u32` of a u64: the low 32 bits
AsU32(x) == SubSeq(x, 1, 2)

RECURSIVE CarryInto(_, _, _)
\* the carry into limb i of x + y
CarryInto(x, y, i) ==
    IF i = 1 THEN 0 ELSE (x[i - 1] + y[i - 1] + CarryInto(x, y, i - 1)) \div Limb

\* u64 addition
AddU64(x, y) == [i \in 1..Len(x) |-> (x[i] + y[i] + CarryInto(x, y, i)) % Limb]

RECURSIVE RemAbove(_, _, _)
\* the remainder left by the limbs i.. of x in the long division by d
RemAbove(x, d, i) ==
    IF i > Len(x) THEN 0 ELSE (RemAbove(x, d, i + 1) * Limb + x[i]) % d

\* u64 division by a small divisor
DivU64(x, d) ==
    [i \in 1..Len(x) |-> (RemAbove(x, d, i + 1) * Limb + x[i]) \div d]

RECURSIVE MulCarry(_, _, _, _)
\* the carry into limb i of x * m + a
MulCarry(x, m, a, i) ==
    IF i = 1 THEN a ELSE (x[i - 1] * m + MulCarry(x, m, a, i - 1)) \div Limb

\* x * m + a for small m and a
MulAddU64(x, m, a) ==
    [i \in 1..Len(x) |-> (x[i] * m + MulCarry(x, m, a, i)) % Limb]

\* Utc::now(): whole seconds and the milliseconds within the second.  The
\* seconds reach past 2^32 - 60 and past 2^32, where the cast truncates.
ClockReadings ==
    [secs : {<<s1, s2, s3, 0>> : s1 \in {0, 1, 65475, 65476, 65535},
                                  s2 \in {0, 24414, 65535},
                                  s3 \in {0, 1}},
     millis : {0, 999}]

\* Utc::now().timestamp_millis() as u64
TimestampMillis(now) == MulAddU64(now.secs, 1000, now.millis)

NoHeader == [none |-> TRUE]

make_external_header(timeout_sec, now) ==
    LET time == TimestampMillis(now)
        expire == AsU32(AddU64(DivU64(time, 1000), AsU64(timeout_sec)))
    IN  [time |-> time, expire |-> expire]

\* timeout_sec of the ContractConfig each wrapper's message() builds with
EthereumEventTimeoutSec == 60

EthereumEventConfigurationTimeoutSec == 60

BridgeConfigurationUpdateTimeoutSec == 60

Wrappers ==
    {"EthereumEventContract", "EthereumEventConfigurationContract",
     "BridgeConfigurationUpdateContract"}

\* the ContractConfig of wrapper w
WrapperConfig(w) ==
    [timeout_sec |->
        CASE w = "EthereumEventContract" -> U32(EthereumEventTimeoutSec)
          [] w = "EthereumEventConfigurationContract" ->
                U32(EthereumEventConfigurationTimeoutSec)
          [] w = "BridgeConfigurationUpdateContract" ->
                U32(BridgeConfigurationUpdateTimeoutSec)]

\* the configurations a direct user of MessageBuilder::new builds with
OtherConfigs == [timeout_sec : {U32(0), U32(1), <<Limb - 1, Limb - 1>>}]

\* MessageBuilderImpl::build
Build(by, config) ==
    /\ hdr.pc = "ready"
    /\ hdr' = [hdr EXCEPT !.pc = "built", !.by = by, !.config = config,
                          !.header = make_external_header(config.timeout_sec, hdr.now)]
    /\ UNCHANGED <<subVars, scan, strm, codec>>

\* a wrapper's message(addr, name) followed by build
WrapperBuild == \E w \in Wrappers : Build(w, WrapperConfig(w))

\* MessageBuilder::new with another configuration, followed by build
BuilderBuild == \E config \in OtherConfigs : Build("MessageBuilder", config)

HdrInit ==
    hdr \in [pc : {"ready"}, now : ClockReadings, by : {"-"},
             config : {[timeout_sec |-> U32(0)]}, header : {NoHeader}]

HeaderInit == SubInit /\ HdrInit /\ scan = Idle /\ strm = Idle /\ codec = Idle

HeaderNext == WrapperBuild \/ BuilderBuild

HeaderSpec == HeaderInit /\ [][HeaderNext]_vars

\* seconds + timeout modulo 2^32, from the low limbs
ExpireOf(secs, timeout_sec) ==
    LET lo == secs[1] + timeout_sec[1]
        hi == secs[2] + timeout_sec[2] + lo \div Limb
    IN  <<lo % Limb, hi % Limb>>

\* C6: every built external message has header.time = the build time in
\* milliseconds and header.expire = floor(header.time / 1000) + timeout_sec
\* truncated to 32 bits (header.time = 1000 * secs + millis with millis < 1000,
\* so the floor is secs), and a message built by a contract wrapper has
\* timeout_sec = 60.
C6_ExpireIsTimePlusTimeout ==
    hdr.pc = "built" =>
        /\ hdr.now.millis < 1000
        /\ hdr.header.time = MulAddU64(hdr.now.secs, 1000, hdr.now.millis)
        /\ hdr.header.expire = ExpireOf(hdr.now.secs, hdr.config.timeout_sec)
        /\ hdr.by \in Wrappers => hdr.header.expire = ExpireOf(hdr.now.secs, <<60, 0>>)

\* a wrapper has built a message whose expiry did not fit 32 bits
C6_Witness ==
    /\ hdr.pc = "built"
    /\ hdr.by \in Wrappers
    /\ hdr.now.secs[3] = 1
    /\ hdr.now.secs[1] = 65476
    /\ hdr.header.expire[1] = 0

(***************************************************************************)
(* Part III.  EventsScanner, the rescan stream                             *)
(*                                                                         *)
(* Option values are sequences: None is <<>> and Some(x) is <<x>>.         *)
(***************************************************************************)
\* logical times of the account's outbound messages are 1..MaxLt
MaxLt == 3

\* outbound messages of the account
MaxMsgs == 3

\* page requests of one scan that fail
MaxFailures == 2

MESSAGES_PER_SCAN_ITER == 50

None == <<>>

Some(x) == <<x>>

Lts == 1..MaxLt

Min(a, b) == IF a < b THEN a ELSE b

\* the account's outbound messages, newest first; messages of one transaction
\* share its lt
Chains ==
    {chain \in UNION {[1..n -> Lts] : n \in 0..MaxMsgs} :
        \A i \in 1..(Len(chain) - 1) : chain[i] >= chain[i + 1]}

\* an item of a page: message i of the chain
Item(chain, i) == [lt |-> chain[i], data |-> "Ok", id |-> i]

\* NodeClient::get_outbound_messages: the messages below end_lt, newest first
Eligible(chain, end_lt) ==
    SelectSeq([i \in 1..Len(chain) |-> Item(chain, i)],
              LAMBDA m : end_lt = None \/ m.lt < end_lt[1])

\* the pages the node may answer a request with: the newest eligible messages,
\* at most `limit` of them and at least one when there is one
Pages(chain, request) ==
    LET all == Eligible(chain, request.end_lt)
    IN  {SubSeq(all, 1, n) : n \in Min(1, Len(all))..Min(request.limit, Len(all))}

\* PrepareEventExt::from_error
from_error(err) == [lt |-> 0, data |-> err, id |-> 0]

\* EventsScanner::poll_request_fut on a future that is ready
poll_request_fut(fut) ==
    IF fut.result = "Ok" THEN fut.response ELSE <<from_error(fut.result)>>

handle_item_unfiltered(since_lt, message) ==
    [until_lt |-> Some(message.lt), action |-> "Emit"]

\* PrepareEventExt::handle_item: the new until_lt and the action
handle_item(since_lt, message) ==
    [until_lt |-> Some(message.lt),
     action |-> IF since_lt # None /\ message.lt < since_lt[1] THEN "Skip" ELSE "Emit"]

\* a scanner that does not wait for the request it has sent
MatchStateEager(messages, request_fut, current_message) ==
    CASE messages # None /\ current_message < Len(messages[1]) -> "process"
      [] messages # None -> "clear"
      [] request_fut # None /\ request_fut[1].state # "sent" -> "poll"
      [] OTHER -> "create"

\* the arm of the match in handle_state
MatchState(messages, request_fut, current_message) ==
    CASE messages # None /\ current_message < Len(messages[1]) -> "process"
      [] messages # None -> "clear"
      [] request_fut # None -> "poll"
      [] OTHER -> "create"

NoItem == [none |-> TRUE]

RECURSIVE handle_state(_)
\* EventsScanner::handle_state: the loop, up to the value it returns.  The
\* future made by get_outbound_messages sends its request when it is first
\* polled and is ready once the node has answered.
handle_state(s) ==
    LET arm == MatchState(s.messages, s.request_fut, s.current_message)
    IN  CASE arm = "process" ->
                LET message == s.messages[1][s.current_message + 1]
                    h == handle_item(s.since_lt, message)
                    t == [s EXCEPT !.current_message = @ + 1, !.until_lt = h.until_lt]
                IN  IF h.action = "Skip"
                    THEN handle_state(t)
                    ELSE [t EXCEPT !.poll = "ReadySome", !.item = message]
          [] arm = "clear" -> handle_state([s EXCEPT !.messages = None])
          [] arm = "poll" ->
                LET fut == s.request_fut[1]
                IN  IF fut.state = "created"
                    THEN [s EXCEPT !.request_fut = Some([fut EXCEPT !.state = "sent"]),
                                   !.outstanding = @ + 1,
                                   !.poll = "Pending", !.item = NoItem]
                    ELSE IF fut.state = "sent"
                    THEN [s EXCEPT !.poll = "Pending", !.item = NoItem]
                    ELSE LET response == poll_request_fut(fut)
                         IN  IF response # <<>>
                             THEN handle_state([s EXCEPT !.current_message = 0,
                                                         !.messages = Some(response),
                                                         !.request_fut = None])
                             ELSE [s EXCEPT !.pc = "ended", !.poll = "ReadyNone",
                                            !.item = NoItem]
          [] arm = "create" ->
                handle_state([s EXCEPT
                    !.request_fut = Some([start_lt |-> s.since_lt, end_lt |-> s.until_lt,
                                          limit |-> MESSAGES_PER_SCAN_ITER,
                                          state |-> "created", result |-> "Ok",
                                          response |-> <<>>]),
                    !.created = [buffered |-> s.messages # None,
                                 pending |-> s.request_fut # None],
                    !.requests = @ + 1])

\* <EventsScanner as Stream>::poll_next
ScanPollNext ==
    /\ scan.pc = "scanning"
    /\ scan' = handle_state(scan)
    /\ UNCHANGED <<subVars, hdr, strm, codec>>

\* the node answers the request with a page
NodeRespond ==
    /\ scan.pc = "scanning"
    /\ scan.request_fut # None
    /\ scan.request_fut[1].state = "sent"
    /\ \E page \in Pages(scan.chain, scan.request_fut[1]) :
        scan' = [scan EXCEPT
            !.request_fut = Some([@[1] EXCEPT !.state = "ready", !.result = "Ok",
                                              !.response = page]),
            !.outstanding = @ - 1]
    /\ UNCHANGED <<subVars, hdr, strm, codec>>

\* the request fails
NodeFail ==
    /\ scan.pc = "scanning"
    /\ scan.request_fut # None
    /\ scan.request_fut[1].state = "sent"
    /\ scan.failures < MaxFailures
    /\ scan' = [scan EXCEPT
            !.request_fut = Some([@[1] EXCEPT !.state = "ready", !.result = "ApiFailure"]),
            !.outstanding = @ - 1,
            !.failures = @ + 1]
    /\ UNCHANGED <<subVars, hdr, strm, codec>>

\* rescan_events / rescan_events_full
ScanInit ==
    \E chain \in Chains, since_lt, until_lt \in {None} \cup {Some(lt) : lt \in Lts} :
        scan = [pc |-> "scanning", chain |-> chain,
                since_lt |-> since_lt, until_lt |-> until_lt,
                request_fut |-> None, messages |-> None, current_message |-> 0,
                poll |-> "none", item |-> NoItem,
                outstanding |-> 0, requests |-> 0, failures |-> 0,
                created |-> [buffered |-> FALSE, pending |-> FALSE]]

ScannerInit == SubInit /\ hdr = Idle /\ ScanInit /\ strm = Idle /\ codec = Idle

ScannerNext == ScanPollNext \/ NodeRespond \/ NodeFail

ScannerSpec == ScannerInit /\ [][ScannerNext]_vars

\* C7: a rescan stream never asks for more than MESSAGES_PER_SCAN_ITER = 50
\* messages in one page request and has at most one page request outstanding
\* at any time: every request was created when no page was buffered and no
\* request was pending, and while a request exists no page is buffered.
C7_OneBoundedRequest ==
    scan.pc # "idle" =>
        /\ scan.outstanding <= 1
        /\ ~scan.created.buffered
        /\ ~scan.created.pending
        /\ scan.request_fut # None =>
            /\ scan.request_fut[1].limit <= 50
            /\ scan.messages = None
            /\ scan.request_fut[1].state = "sent" <=> scan.outstanding = 1
        /\ scan.messages # None => Len(scan.messages[1]) <= 50

\* the scanner waits for its second page while nothing is buffered
C7_Witness ==
    /\ scan.pc = "scanning"
    /\ scan.requests = 2
    /\ scan.outstanding = 1
    /\ scan.poll = "Pending"
    /\ scan.messages = None
    /\ scan.until_lt # None

(***************************************************************************)
(* Part IV.  TonSwapBackEvents as a stream                                 *)
(***************************************************************************)
\* raw events the subscription sends on the events channel
MaxEvents == 4

NoEvent == [none |-> TRUE]

\* the result of decoding a raw event that does not fit the ABI, were it to end
\* the stream
OnRawEventStrict(raw_event) == IF raw_event.decodable THEN "yield" ELSE "end"

\* self.abi.decode_input(raw_event.event_data) and the arm taken on its result
OnRawEvent(raw_event) == IF raw_event.decodable THEN "yield" ELSE "skip"

RECURSIVE PollNext(_, _)
\* <TonSwapBackEvents as Stream>::poll_next: the loop over events_rx
PollNext(events_rx, closed) ==
    IF events_rx = <<>>
    THEN [events_rx |-> events_rx,
          poll |-> IF closed THEN "ReadyNone" ELSE "Pending", item |-> NoEvent]
    ELSE LET on == OnRawEvent(Head(events_rx))
         IN  CASE on = "yield" ->
                    [events_rx |-> Tail(events_rx), poll |-> "ReadySome",
                     item |-> Head(events_rx)]
               [] on = "skip" -> PollNext(Tail(events_rx), closed)
               [] on = "end" ->
                    [events_rx |-> Tail(events_rx), poll |-> "ReadyNone",
                     item |-> NoEvent]

\* the subscription loop sends a raw event
EventsSend ==
    /\ strm.pc = "streaming"
    /\ ~strm.closed
    /\ Len(strm.sent) < MaxEvents
    /\ \E decodable \in BOOLEAN :
        LET raw_event == [event_index |-> Len(strm.sent) + 1, decodable |-> decodable]
        IN  strm' = [strm EXCEPT !.events_rx = Append(@, raw_event),
                                 !.sent = Append(@, raw_event)]
    /\ UNCHANGED <<subVars, hdr, scan, codec>>

\* the sender is dropped
EventsClose ==
    /\ strm.pc = "streaming"
    /\ ~strm.closed
    /\ strm' = [strm EXCEPT !.closed = TRUE]
    /\ UNCHANGED <<subVars, hdr, scan, codec>>

\* the consumer polls the stream
StreamPollNext ==
    /\ strm.pc = "streaming"
    /\ LET r == PollNext(strm.events_rx, strm.closed)
       IN  strm' = [strm EXCEPT
                !.events_rx = r.events_rx,
                !.poll = r.poll,
                !.yielded = IF r.poll = "ReadySome" THEN Append(@, r.item) ELSE @]
    /\ UNCHANGED <<subVars, hdr, scan, codec>>

StrmInit ==
    strm = [pc |-> "streaming", events_rx |-> <<>>, closed |-> FALSE, sent |-> <<>>,
            poll |-> "none", yielded |-> <<>>]

StreamInit == SubInit /\ hdr = Idle /\ scan = Idle /\ StrmInit /\ codec = Idle

StreamNext == EventsSend \/ EventsClose \/ StreamPollNext

StreamSpec == StreamInit /\ [][StreamNext]_vars

\* the raw events taken from the channel so far
Taken == SubSeq(strm.sent, 1, Len(strm.sent) - Len(strm.events_rx))

Decodable(raw_event) == raw_event.decodable

\* C8: an undecodable raw event is skipped without ending or failing the
\* stream: at every moment the items yielded are exactly the decodable events
\* among those taken from the channel, in the order received; a poll returns
\* an item whenever a decodable event is waiting, stops taking events only at
\* the item it yields, and returns the end of the stream only when the channel
\* is closed and empty.
C8_UndecodableSkipped ==
    /\ [](strm.pc = "streaming" => strm.yielded = SelectSeq(Taken, Decodable))
    /\ [][strm'.poll # strm.poll \/ strm'.events_rx # strm.events_rx
            => \/ /\ strm'.poll = "ReadySome"
                  /\ strm'.yielded = Append(strm.yielded, Taken'[Len(Taken')])
               \/ /\ strm'.poll = "ReadyNone"
                  /\ strm.closed /\ strm'.events_rx = <<>>
                  /\ SelectSeq(strm.events_rx, Decodable) = <<>>
               \/ /\ strm'.poll = "Pending"
                  /\ ~strm.closed /\ strm'.events_rx = <<>>
                  /\ SelectSeq(strm.events_rx, Decodable) = <<>>
               \/ /\ strm'.poll = strm.poll
                  /\ strm'.events_rx = Append(strm.events_rx, strm'.sent[Len(strm'.sent)])]_vars

\* an undecodable event was skipped, a later decodable one was yielded, and the
\* stream ended after the channel was closed
C8_Witness ==
    /\ strm.pc = "streaming"
    /\ strm.poll = "ReadyNone"
    /\ \E i, j \in 1..Len(strm.sent) :
        /\ i < j
        /\ ~strm.sent[i].decodable
        /\ strm.sent[j].decodable
        /\ strm.yielded # <<>>
        /\ strm.yielded[Len(strm.yielded)] = strm.sent[j]

(***************************************************************************)
(* Part V.  The wire codec between E-ABI and T-ABI values                  *)
(*                                                                         *)
(* A 256-bit word (ethabi::Uint, ethabi::Int) is the sequence of its 32    *)
(* bytes, least significant first.  A BigUint is the sequence of its       *)
(* bytes, least significant first, without high zero bytes; a BigInt is a  *)
(* sign and a BigUint.                                                     *)
(***************************************************************************)
\* bytes of a 256-bit word
WordBytes == 32

\* longest array among the values translated
MaxArrayLen == 2

Byte == 2^8

Reverse(s) == [i \in 1..Len(s) |-> s[Len(s) + 1 - i]]

\* Vec::resize
Resize(bytes, n, fill) ==
    IF Len(bytes) >= n THEN SubSeq(bytes, 1, n)
    ELSE bytes \o [i \in 1..(n - Len(bytes)) |-> fill]

RECURSIVE Normalized(_)
\* BigUint drops its high zero digits
Normalized(le) ==
    IF le = <<>> \/ le[Len(le)] # 0 THEN le ELSE Normalized(SubSeq(le, 1, Len(le) - 1))

\* U256::to_big_endian
to_big_endian(word) == Reverse(word)

Panic == [kind |-> "Panic"]

\* U256::from_little_endian as a token of the given kind; it panics on more
\* than 32 bytes
from_little_endian(kind, bytes) ==
    IF Len(bytes) > WordBytes THEN Panic
    ELSE [kind |-> kind, word |-> Resize(bytes, WordBytes, 0)]

\* BigUint::from_bytes_be
from_bytes_be(bytes) == Normalized(Reverse(bytes))

\* BigUint::to_bytes_le
to_bytes_le(number) == IF number = <<>> THEN <<0>> ELSE number

RECURSIVE CarryAt(_, _)
\* adding one to the inverted bytes carries into byte i
CarryAt(bytes, i) == i = 1 \/ (CarryAt(bytes, i - 1) /\ bytes[i - 1] = 0)

\* inverting the bytes without adding one
OnesComplementLe(bytes) == [i \in 1..Len(bytes) |-> Byte - 1 - bytes[i]]

\* num-bigint's twos_complement_le: invert and add one
twos_complement_le(bytes) ==
    [i \in 1..Len(bytes) |->
        IF CarryAt(bytes, i) THEN (Byte - bytes[i]) % Byte ELSE Byte - 1 - bytes[i]]

twos_complement_be(bytes) == Reverse(twos_complement_le(Reverse(bytes)))

\* BigInt::from_biguint
from_biguint(sign, data) ==
    IF data = <<>> THEN [sign |-> "NoSign", data |-> <<>>]
    ELSE [sign |-> sign, data |-> data]

\* BigInt::from_signed_bytes_be
from_signed_bytes_be(bytes) ==
    IF bytes = <<>> THEN from_biguint("NoSign", <<>>)
    ELSE IF bytes[1] > 127
         THEN from_biguint("Minus", from_bytes_be(twos_complement_be(bytes)))
         ELSE from_biguint("Plus", from_bytes_be(bytes))

\* BigInt::to_signed_bytes_le
to_signed_bytes_le(number) ==
    LET bytes == to_bytes_le(number.data)
        last_byte == bytes[Len(bytes)]
        power == /\ last_byte = 128
                 /\ \A i \in 1..(Len(bytes) - 1) : bytes[i] = 0
                 /\ number.sign = "Minus"
        extended == IF last_byte > 127 /\ ~power THEN Append(bytes, 0) ELSE bytes
    IN  IF number.sign = "Minus" THEN twos_complement_le(extended) ELSE extended

\* a translation that pads every int with zero bytes
SignByteZero(last) == 0

\* (first >> 7) * 255
SignByte(last) == (last \div 128) * 255

RECURSIVE Utf8(_)
\* String::from_utf8 succeeds (one- and two-byte sequences)
Utf8(bytes) ==
    \/ bytes = <<>>
    \/ bytes[1] < 128 /\ Utf8(Tail(bytes))
    \/ /\ Len(bytes) >= 2
       /\ bytes[1] \in 194..223
       /\ bytes[2] \in 128..191
       /\ Utf8(Tail(Tail(bytes)))

\* Err(anyhow!(...))
Err(reason) == [kind |-> "Err", reason |-> reason]

Failed(result) == result.kind \in {"Err", "Panic"}

\* collect::<Result<Vec<_>, _>>(): the first failure, or all the values
Collect(results) ==
    IF \E i \in DOMAIN results : Failed(results[i])
    THEN [failed |-> TRUE,
          error |-> results[CHOOSE i \in DOMAIN results :
                        Failed(results[i]) /\ \A j \in 1..(i - 1) : ~Failed(results[j])]]
    ELSE [failed |-> FALSE, values |-> results]

RECURSIVE map_eth_to_ton_with_abi(_, _)
map_eth_to_ton_with_abi(eth, eth_param_abi) ==
    CASE eth.kind = "FixedBytes" -> [kind |-> "FixedBytes", bytes |-> eth.bytes]
      [] eth.kind = "Bytes" -> [kind |-> "Bytes", bytes |-> eth.bytes]
      [] eth.kind = "Uint" /\ eth_param_abi.t = "Uint" ->
            [kind |-> "Uint",
             number |-> from_bytes_be(to_big_endian(eth.word)),
             size |-> eth_param_abi.size]
      [] eth.kind = "Int" /\ eth_param_abi.t = "Int" ->
            [kind |-> "Int",
             number |-> from_signed_bytes_be(to_big_endian(eth.word)),
             size |-> eth_param_abi.size]
      [] eth.kind = "Address" -> [kind |-> "Bytes", bytes |-> eth.bytes]
      [] eth.kind = "String" -> [kind |-> "Bytes", bytes |-> eth.bytes]
      [] eth.kind = "Bool" -> [kind |-> "Bool", b |-> eth.b]
      [] eth.kind = "FixedArray" /\ eth_param_abi.t = "FixedArray" ->
            LET c == Collect([i \in 1..Len(eth.items) |->
                        map_eth_to_ton_with_abi(eth.items[i], eth_param_abi.param)])
            IN  IF c.failed THEN c.error ELSE [kind |-> "FixedArray", items |-> c.values]
      [] eth.kind = "Array" /\ eth_param_abi.t = "Array" ->
            LET c == Collect([i \in 1..Len(eth.items) |->
                        map_eth_to_ton_with_abi(eth.items[i], eth_param_abi.param)])
            IN  IF c.failed THEN c.error ELSE [kind |-> "Array", items |-> c.values]
      [] eth.kind = "Tuple" /\ eth_param_abi.t = "Tuple" ->
            LET n == IF Len(eth.items) < Len(eth_param_abi.params)
                     THEN Len(eth.items) ELSE Len(eth_param_abi.params)
                c == Collect([i \in 1..n |->
                        map_eth_to_ton_with_abi(eth.items[i], eth_param_abi.params[i])])
            IN  IF c.failed THEN c.error
                ELSE [kind |-> "Tuple",
                      tokens |-> [i \in 1..n |-> [name |-> "", value |-> c.values[i]]]]
      [] OTHER -> Err("unsupported type")

\* no guard on the length of the bytes of an address
AnyLen(a) == TRUE

\* the guard `if a.len() == 20` of the Address arm
IsAddressLen(a) == Len(a) = 20

RECURSIVE map_ton_to_eth_with_abi(_, _)
map_ton_to_eth_with_abi(ton, eth_param_type) ==
    CASE /\ ton.kind = "FixedBytes" /\ eth_param_type.t = "FixedBytes"
         /\ Len(ton.bytes) = eth_param_type.size ->
            [kind |-> "FixedBytes", bytes |-> ton.bytes]
      [] ton.kind = "Bytes" /\ eth_param_type.t = "Bytes" ->
            [kind |-> "Bytes", bytes |-> ton.bytes]
      [] ton.kind = "Uint" /\ eth_param_type.t = "Uint" ->
            LET bytes == to_bytes_le(ton.number)
            IN  from_little_endian("Uint", bytes)
      [] ton.kind = "Int" /\ eth_param_type.t = "Int" ->
            LET bytes == to_signed_bytes_le(ton.number)
                sign == IF bytes = <<>> THEN 0 ELSE SignByte(bytes[Len(bytes)])
            IN  from_little_endian("Int", Resize(bytes, WordBytes, sign))
      [] /\ ton.kind = "Bytes" /\ eth_param_type.t = "Address"
         /\ IsAddressLen(ton.bytes) ->
            [kind |-> "Address", bytes |-> ton.bytes]
      [] ton.kind = "Bytes" /\ eth_param_type.t = "String" ->
            IF Utf8(ton.bytes) THEN [kind |-> "String", bytes |-> ton.bytes]
            ELSE Err("invalid utf-8")
      [] ton.kind = "Bool" /\ eth_param_type.t = "Bool" -> [kind |-> "Bool", b |-> ton.b]
      [] /\ ton.kind = "FixedArray" /\ eth_param_type.t = "FixedArray"
         /\ Len(ton.items) = eth_param_type.size ->
            LET c == Collect([i \in 1..eth_param_type.size |->
                        map_ton_to_eth_with_abi(ton.items[i], eth_param_type.param)])
            IN  IF c.failed THEN c.error ELSE [kind |-> "FixedArray", items |-> c.values]
      [] ton.kind = "Array" /\ eth_param_type.t = "Array" ->
            LET c == Collect([i \in 1..Len(ton.items) |->
                        map_ton_to_eth_with_abi(ton.items[i], eth_param_type.param)])
            IN  IF c.failed THEN c.error ELSE [kind |-> "Array", items |-> c.values]
      [] /\ ton.kind = "Tuple" /\ eth_param_type.t = "Tuple"
         /\ Len(ton.tokens) = Len(eth_param_type.params) ->
            LET c == Collect([i \in 1..Len(ton.tokens) |->
                        map_ton_to_eth_with_abi(ton.tokens[i].value,
                                                eth_param_type.params[i])])
            IN  IF c.failed THEN c.error ELSE [kind |-> "Tuple", items |-> c.values]
      [] OTHER -> Err("unsupported type")

(***************************************************************************)
(* The values translated                                                   *)
(***************************************************************************)
UintT(size) == [t |-> "Uint", size |-> size]

IntT(size) == [t |-> "Int", size |-> size]

BoolT == [t |-> "Bool"]

BytesT == [t |-> "Bytes"]

FixedBytesT(size) == [t |-> "FixedBytes", size |-> size]

ArrayT(param) == [t |-> "Array", param |-> param]

FixedArrayT(param, size) == [t |-> "FixedArray", param |-> param, size |-> size]

TupleT(params) == [t |-> "Tuple", params |-> params]

EdgeBytes == {0, 1, 127, 128, 255}

\* the word with the given low bytes and top byte, the bytes between them `fill`
Word(low, fill, top) ==
    [i \in 1..WordBytes |->
        IF i <= Len(low) THEN low[i] ELSE IF i = WordBytes THEN top ELSE fill]

Words ==
    {Word(low, fill, top) :
        low \in {<<>>} \cup {<<a>> : a \in EdgeBytes}
                      \cup {<<a, b>> : a, b \in EdgeBytes},
        fill \in {0, 255}, top \in {0, 127, 128, 255}}

IntSizes == {8, 16, 256}

\* the words used inside arrays and tuples: 0, 128, 255, -1, -129
ElemWords ==
    {Word(<<>>, 0, 0), Word(<<128>>, 0, 0), Word(<<255>>, 0, 0),
     Word(<<>>, 255, 255), Word(<<127>>, 255, 255)}

ByteStrings == {<<>>, <<0>>, <<255>>, <<1, 2>>, <<255, 0>>}

RECURSIVE Product(_)
\* the sequences whose i-th element is drawn from sets[i]
Product(sets) ==
    IF sets = <<>> THEN {<<>>}
    ELSE {<<h>> \o t : h \in Head(sets), t \in Product(Tail(sets))}

RECURSIVE Fits(_, _)
\* the E value is a value of the E-ABI type
Fits(eth, abi) ==
    CASE abi.t = "Uint" ->
            /\ eth.kind = "Uint"
            /\ \A i \in (abi.size \div 8 + 1)..WordBytes : eth.word[i] = 0
      [] abi.t = "Int" ->
            /\ eth.kind = "Int"
            /\ \A i \in (abi.size \div 8 + 1)..WordBytes :
                    eth.word[i] = (IF eth.word[abi.size \div 8] > 127 THEN 255 ELSE 0)
      [] abi.t = "Bool" -> eth.kind = "Bool"
      [] abi.t = "Bytes" -> eth.kind = "Bytes"
      [] abi.t = "FixedBytes" -> eth.kind = "FixedBytes" /\ Len(eth.bytes) = abi.size
      [] abi.t = "Array" ->
            /\ eth.kind = "Array"
            /\ \A i \in DOMAIN eth.items : Fits(eth.items[i], abi.param)
      [] abi.t = "FixedArray" ->
            /\ eth.kind = "FixedArray"
            /\ Len(eth.items) = abi.size
            /\ \A i \in DOMAIN eth.items : Fits(eth.items[i], abi.param)
      [] abi.t = "Tuple" ->
            /\ eth.kind = "Tuple"
            /\ Len(eth.items) = Len(abi.params)
            /\ \A i \in DOMAIN eth.items : Fits(eth.items[i], abi.params[i])
      [] OTHER -> FALSE

RECURSIVE ValuesOf(_, _)
\* E values of the type, its words drawn from `words`
ValuesOf(abi, words) ==
    CASE abi.t = "Uint" -> {[kind |-> "Uint", word |-> w] : w \in words}
      [] abi.t = "Int" -> {[kind |-> "Int", word |-> w] : w \in words}
      [] abi.t = "Bool" -> {[kind |-> "Bool", b |-> b] : b \in BOOLEAN}
      [] abi.t = "Bytes" -> {[kind |-> "Bytes", bytes |-> x] : x \in ByteStrings}
      [] abi.t = "FixedBytes" ->
            {[kind |-> "FixedBytes", bytes |-> x] :
                x \in {y \in ByteStrings : Len(y) = abi.size}}
      [] abi.t = "Array" ->
            {[kind |-> "Array", items |-> items] :
                items \in UNION {[1..n -> {v \in ValuesOf(abi.param, ElemWords) :
                                            Fits(v, abi.param)}] :
                                 n \in 0..MaxArrayLen}}
      [] abi.t = "FixedArray" ->
            {[kind |-> "FixedArray", items |-> items] :
                items \in [1..abi.size -> {v \in ValuesOf(abi.param, ElemWords) :
                                            Fits(v, abi.param)}]}
      [] abi.t = "Tuple" ->
            {[kind |-> "Tuple", items |-> items] :
                items \in Product([i \in 1..Len(abi.params) |->
                            {v \in ValuesOf(abi.params[i], ElemWords) :
                                Fits(v, abi.params[i])}])}

LeafTypes ==
    {UintT(n) : n \in IntSizes} \cup {IntT(n) : n \in IntSizes}
        \cup {BoolT, BytesT, FixedBytesT(1), FixedBytesT(2)}

ElemTypes == {IntT(16), UintT(8), BoolT, BytesT, FixedBytesT(1)}

CompositeTypes ==
    {ArrayT(p) : p \in ElemTypes}
        \cup {FixedArrayT(p, 2) : p \in ElemTypes}
        \cup {TupleT(<<p, q>>) : p, q \in ElemTypes}
        \cup {ArrayT(TupleT(<<IntT(16), BoolT>>)),
              TupleT(<<ArrayT(IntT(16)), FixedArrayT(UintT(8), 2)>>)}

\* the (type, value) pairs handed to the codec
CodecInputs ==
    UNION {{[abi |-> abi, eth |-> v] : v \in ValuesOf(abi, Words)} :
            abi \in LeafTypes \cup CompositeTypes}

NoValue == [kind |-> "None"]

\* map_eth_to_ton_with_abi(eth, &abi)
EthToTon ==
    /\ codec.pc = "eth"
    /\ codec' = [codec EXCEPT !.pc = "ton",
                              !.ton = map_eth_to_ton_with_abi(codec.eth, codec.abi)]
    /\ UNCHANGED <<subVars, hdr, scan, strm>>

\* map_ton_to_eth_with_abi(ton, abi) on the value just produced
TonToEth ==
    /\ codec.pc = "ton"
    /\ ~Failed(codec.ton)
    /\ codec' = [codec EXCEPT !.pc = "back",
                              !.back = map_ton_to_eth_with_abi(codec.ton, codec.abi)]
    /\ UNCHANGED <<subVars, hdr, scan, strm>>

CodecInit ==
    \E input \in CodecInputs :
        codec = [pc |-> "eth", abi |-> input.abi, eth |-> input.eth,
                 ton |-> NoValue, back |-> NoValue]

CodecSpecInit == SubInit /\ hdr = Idle /\ scan = Idle /\ strm = Idle /\ CodecInit

CodecNext == EthToTon \/ TonToEth

CodecSpec == CodecSpecInit /\ [][CodecNext]_vars

RECURSIVE RoundTripType(_)
\* the type is built from uint<N>, int<N>, bool, bytes, bytes<N>, arrays and
\* tuples
RoundTripType(abi) ==
    CASE abi.t \in {"Uint", "Int", "Bool", "Bytes", "FixedBytes"} -> TRUE
      [] abi.t \in {"Array", "FixedArray"} -> RoundTripType(abi.param)
      [] abi.t = "Tuple" -> \A i \in DOMAIN abi.params : RoundTripType(abi.params[i])
      [] OTHER -> FALSE

\* C10: for every E value v that fits a type t built from uint<N>, int<N>,
\* bool, bytes, bytes<N>, arrays and tuples, map_eth_to_ton_with_abi(v, t)
\* succeeds and map_ton_to_eth_with_abi of its result and t succeeds and
\* equals v.
C10_RoundTripIdentity ==
    (codec.pc # "idle" /\ RoundTripType(codec.abi) /\ Fits(codec.eth, codec.abi)) =>
        /\ codec.pc \in {"ton", "back"} => ~Failed(codec.ton)
        /\ codec.pc = "back" => codec.back = codec.eth

\* the round trip of an array of int16 holding -129 and 128 is done
C10_Witness ==
    /\ codec.pc = "back"
    /\ codec.abi = ArrayT(IntT(16))
    /\ codec.eth.items = <<[kind |-> "Int", word |-> Word(<<127>>, 255, 255)],
                           [kind |-> "Int", word |-> Word(<<128>>, 0, 0)]>>
    /\ codec.back = codec.eth

(***************************************************************************)
(* T values handed to map_ton_to_eth_with_abi                              *)
(***************************************************************************)
\* bytes of the longest BigUint / BigInt magnitude translated: one more than
\* a word holds
MaxMagnitudeBytes == 33

\* the magnitude with the given low bytes and top byte, n bytes long
Magnitude(low, n, fill, top) ==
    Normalized([i \in 1..n |->
        IF i <= Len(low) THEN low[i] ELSE IF i = n THEN top ELSE fill])

\* magnitudes around the byte boundaries, around 2^255 and 2^256
Magnitudes ==
    {Magnitude(low, n, fill, top) :
        low \in {<<>>, <<1>>, <<255>>},
        n \in {1, 2, WordBytes - 1, WordBytes, MaxMagnitudeBytes},
        fill \in {0, 255}, top \in {0, 1, 127, 128, 255}}

BigInts ==
    {from_biguint(sign, data) : sign \in {"Plus", "Minus"}, data \in Magnitudes}

\* ton_abi::Int and ton_abi::Uint values
TonInts == {[kind |-> "Int", number |-> n, size |-> size] : n \in BigInts, size \in {8, 256}}

TonUints ==
    {[kind |-> "Uint", number |-> n, size |-> size] : n \in Magnitudes, size \in {8, 256}}

\* the (type, value) pairs handed to map_ton_to_eth_with_abi
TonInputs ==
    {[abi |-> IntT(v.size), ton |-> v] : v \in TonInts}
        \cup {[abi |-> UintT(v.size), ton |-> v] : v \in TonUints}

TonCodecInit ==
    \E input \in TonInputs :
        codec = [pc |-> "ton", abi |-> input.abi, eth |-> NoValue,
                 ton |-> input.ton, back |-> NoValue]

TonCodecSpecInit == SubInit /\ hdr = Idle /\ scan = Idle /\ strm = Idle /\ TonCodecInit

TonCodecNext == TonToEth

TonCodecSpec == TonCodecSpecInit /\ [][TonCodecNext]_vars

\* -2^255 <= n < 2^255
InInt256(n) ==
    LET len == Len(n.data)
    IN  \/ len < WordBytes
        \/ /\ len = WordBytes
           /\ \/ n.data[len] < 128
              \/ /\ n.sign = "Minus"
                 /\ n.data[len] = 128
                 /\ \A i \in 1..(len - 1) : n.data[i] = 0

RECURSIVE SumCarry(_, _, _)
\* the carry into byte i of x + y
SumCarry(x, y, i) ==
    IF i = 1 THEN 0 ELSE (x[i - 1] + y[i - 1] + SumCarry(x, y, i - 1)) \div Byte

\* x + y = 2^256, for words x and y
SumIsTwoTo256(x, y) ==
    /\ \A i \in 1..WordBytes : (x[i] + y[i] + SumCarry(x, y, i)) % Byte = 0
    /\ SumCarry(x, y, WordBytes + 1) = 1

\* the word is the 256-bit two's-complement encoding of n
Denotes(word, n) ==
    IF n.sign = "Minus"
    THEN word[WordBytes] > 127 /\ SumIsTwoTo256(word, Resize(n.data, WordBytes, 0))
    ELSE word[WordBytes] < 128 /\ word = Resize(n.data, WordBytes, 0)

\* C11: translating a T-ABI int<N> value n with -2^255 <= n < 2^255 to an
\* E-ABI int succeeds and yields the 256-bit two's-complement encoding of n:
\* a word with the top bit set whose sum with |n| is 2^256 when n is negative,
\* and |n| padded with zero bytes otherwise.
C11_IntIsTwosComplement ==
    (codec.pc = "back" /\ codec.eth = NoValue /\ codec.ton.kind = "Int"
        /\ codec.abi.t = "Int" /\ InInt256(codec.ton.number)) =>
        /\ codec.back.kind = "Int"
        /\ Denotes(codec.back.word, codec.ton.number)

\* -2^255 has been translated to the word 00 .. 00 80
C11_Witness ==
    /\ codec.pc = "back"
    /\ codec.eth = NoValue
    /\ codec.ton.kind = "Int"
    /\ codec.ton.number = [sign |-> "Minus", data |-> Magnitude(<<>>, WordBytes, 0, 128)]
    /\ codec.back = [kind |-> "Int", word |-> Word(<<>>, 0, 128)]

(***************************************************************************)
(* Part VI.  Parsing of event ABIs                                         *)
(*                                                                         *)
(* A string is the sequence of its characters.                             *)
(***************************************************************************)
\* digits of the longest size numeral of a type name
MaxDigits == 3

\* inputs of the longest event ABI parsed
MaxAbiInputs == 2

UpperCase == <<"A", "B", "C", "D", "E", "F", "G", "H", "I", "J", "K", "L", "M", "N", "O", "P", "Q", "R", "S", "T", "U", "V", "W", "X", "Y", "Z">>

LowerCase == <<"a", "b", "c", "d", "e", "f", "g", "h", "i", "j", "k", "l", "m", "n", "o", "p", "q", "r", "s", "t", "u", "v", "w", "x", "y", "z">>

DecimalDigits == <<"0", "1", "2", "3", "4", "5", "6", "7", "8", "9">>

\* char::to_lowercase
ToLowerChar(c) ==
    IF \E i \in DOMAIN UpperCase : UpperCase[i] = c
    THEN LowerCase[CHOOSE i \in DOMAIN UpperCase : UpperCase[i] = c]
    ELSE c

\* str::to_lowercase
to_lowercase(str) == [i \in 1..Len(str) |-> ToLowerChar(str[i])]

\* char::is_alphabetic
is_alphabetic(c) ==
    \E i \in DOMAIN LowerCase : LowerCase[i] = c \/ UpperCase[i] = c

\* str::starts_with
starts_with(str, prefix) ==
    Len(str) >= Len(prefix) /\ SubSeq(str, 1, Len(prefix)) = prefix

RECURSIVE trim_start_alphabetic(_)
\* str.trim_start_matches(char::is_alphabetic)
trim_start_alphabetic(str) ==
    IF str # <<>> /\ is_alphabetic(Head(str))
    THEN trim_start_alphabetic(Tail(str))
    ELSE str

DigitValue(c) == (CHOOSE i \in DOMAIN DecimalDigits : DecimalDigits[i] = c) - 1

IsDigit(c) == \E i \in DOMAIN DecimalDigits : DecimalDigits[i] = c

RECURSIVE DigitsValue(_)
DigitsValue(digits) ==
    IF digits = <<>> THEN 0
    ELSE DigitsValue(SubSeq(digits, 1, Len(digits) - 1)) * 10
            + DigitValue(digits[Len(digits)])

\* str::parse::<usize>: an optional plus sign and at least one decimal digit
\* (the numerals drawn are far below usize::MAX)
parse_usize(str) ==
    LET digits == IF str # <<>> /\ Head(str) = "+" THEN Tail(str) ELSE str
    IN  IF digits # <<>> /\ \A i \in DOMAIN digits : IsDigit(digits[i])
        THEN [kind |-> "Ok", num |-> DigitsValue(digits)]
        ELSE [kind |-> "Err", reason |-> "ParseIntError"]

AddressT == [t |-> "Address"]

StringT == [t |-> "String"]

\* Ok(param)
OkParam(param) == [kind |-> "Ok", param |-> param]

\* the size check of eth_param_from_str: `num % 8 != 0` is rejected
SizeAccepted(num) == num % 8 = 0

eth_param_from_str(token) ==
    LET str == to_lowercase(token)
        num == parse_usize(trim_start_alphabetic(str))
    IN  IF starts_with(str, <<"u", "i", "n", "t">>)
        THEN IF num.kind = "Err" THEN num
             ELSE IF ~SizeAccepted(num.num) THEN [kind |-> "Err", reason |-> "Bad int size"]
             ELSE OkParam(UintT(num.num))
        ELSE IF starts_with(str, <<"i", "n", "t">>)
        THEN IF num.kind = "Err" THEN num
             ELSE IF ~SizeAccepted(num.num) THEN [kind |-> "Err", reason |-> "Bad uint size"]
             ELSE OkParam(IntT(num.num))
        ELSE IF starts_with(str, <<"a", "d", "d", "r", "e", "s", "s">>) THEN OkParam(AddressT)
        ELSE IF starts_with(str, <<"b", "o", "o", "l">>) THEN OkParam(BoolT)
        ELSE IF starts_with(str, <<"s", "t", "r", "i", "n", "g">>) THEN OkParam(StringT)
        ELSE IF starts_with(str, <<"b", "y", "t", "e", "s">>)
        THEN IF num.kind = "Err" THEN num ELSE OkParam(FixedBytesT(num.num))
        ELSE Panic

RECURSIVE Decimal(_)
\* the decimal numeral of n
Decimal(n) ==
    IF n < 10 THEN <<DecimalDigits[n + 1]>>
    ELSE Append(Decimal(n \div 10), DecimalDigits[(n % 10) + 1])

\* the sizes N of the type names uint<N> and int<N> handed to eth_param_from_str
NameSizes ==
    {n \in 0..(10^MaxDigits - 1) :
        n \in {0, 1, 7, 8, 9, 12, 16, 64, 100, 128, 248, 255, 256, 257, 264, 512, 999}}

IntNames ==
    {<<"u", "i", "n", "t">>, <<"U", "I", "N", "T">>, <<"U", "i", "n", "t">>, <<"i", "n", "t">>, <<"I", "N", "T">>, <<"I", "n", "t">>}

\* eth_param_from_str(token)
EthParamFromStr ==
    /\ codec.pc = "token"
    /\ codec' = [codec EXCEPT !.pc = "param", !.result = eth_param_from_str(codec.token)]
    /\ UNCHANGED <<subVars, hdr, scan, strm>>

ParamInit ==
    \E name \in IntNames, n \in NameSizes :
        codec = [pc |-> "token", name |-> name, n |-> n, token |-> name \o Decimal(n),
                 result |-> NoValue]

ParamSpecInit == SubInit /\ hdr = Idle /\ scan = Idle /\ strm = Idle /\ ParamInit

ParamNext == EthParamFromStr

ParamSpec == ParamSpecInit /\ [][ParamNext]_vars

\* C13: eth_param_from_str accepts the type names uint<N> and int<N>, in any
\* letter case, exactly when N is a multiple of 8 in the range 8..256, and
\* then returns Uint(N) or Int(N); every other N is rejected with an error.
C13_SizeInRangeMultipleOf8 ==
    codec.pc = "param" =>
        IF codec.n % 8 = 0 /\ codec.n >= 8 /\ codec.n <= 256
        THEN codec.result =
                OkParam(IF starts_with(to_lowercase(codec.name), <<"u">>)
                        THEN UintT(codec.n) ELSE IntT(codec.n))
        ELSE codec.result.kind = "Err"

RECURSIVE map_eth_abi_param(_)
map_eth_abi_param(param) ==
    CASE param.t = "Address" -> BytesT
      [] param.t = "Bytes" -> BytesT
      [] param.t = "Int" -> IntT(param.size)
      [] param.t = "Uint" -> UintT(param.size)
      [] param.t = "Bool" -> BoolT
      [] param.t = "String" -> BytesT
      [] param.t = "Array" -> ArrayT(map_eth_abi_param(param.param))
      [] param.t = "FixedBytes" -> FixedBytesT(param.size)
      [] param.t = "FixedArray" -> FixedArrayT(map_eth_abi_param(param.param), param.size)
      [] param.t = "Tuple" ->
            TupleT([i \in 1..Len(param.params) |-> map_eth_abi_param(param.params[i])])

map_eth_abi(abi) == [i \in 1..Len(abi) |-> map_eth_abi_param(abi[i])]

RECURSIVE JoinFirst(_, _, _)
JoinFirst(strs, sep, n) ==
    IF n = 0 THEN <<>>
    ELSE IF n = 1 THEN strs[1]
    ELSE JoinFirst(strs, sep, n - 1) \o sep \o strs[n]

\* [String]::join with no separator
JoinNoSeparator(strs, sep) == JoinFirst(strs, <<>>, Len(strs))

\* [String]::join
Join(strs, sep) == JoinFirst(strs, sep, Len(strs))

\* Keccak256::digest(bytes) as an H256: a hash is known by what was hashed
Keccak256(bytes) == [keccak256 |-> bytes]

\* .collect::<Result<Vec<_>, Error>>() over eth_param_from_str: the first type
\* name that fails ends the iteration
CollectParams(results) ==
    IF \E i \in DOMAIN results : results[i].kind # "Ok"
    THEN results[CHOOSE i \in DOMAIN results :
                    /\ results[i].kind # "Ok"
                    /\ \A j \in 1..(i - 1) : results[j].kind = "Ok"]
    ELSE [kind |-> "Ok", params |-> [i \in DOMAIN results |-> results[i].param]]

\* abi is what serde_json::from_str made of the text: an error or an Abi
parse_eth_abi(abi) ==
    IF abi.kind = "Err" THEN abi
    ELSE
    LET fn_name == abi.name
        input_types == Join([i \in 1..Len(abi.inputs) |-> abi.inputs[i].type_field], <<",">>)
        eth_abi_params ==
            CollectParams([i \in 1..Len(abi.inputs) |->
                                eth_param_from_str(abi.inputs[i].type_field)])
        signature == fn_name \o <<"(">> \o input_types \o <<")">>
    IN  IF eth_abi_params.kind # "Ok" THEN eth_abi_params
        ELSE [kind |-> "Ok",
              topic |-> Keccak256(signature),
              eth_abi_params |-> eth_abi_params.params,
              ton_abi_params |-> map_eth_abi(eth_abi_params.params)]

\* parse_eth_abi(abi)
ParseEthAbi ==
    /\ codec.pc = "abi"
    /\ codec' = [codec EXCEPT !.pc = "parsed", !.result = parse_eth_abi(codec.abi)]
    /\ UNCHANGED <<subVars, hdr, scan, strm>>

EventNames == {<<"L", "o", "c", "k">>, <<"S", "w", "a", "p">>}

\* the "type" strings of the inputs of the event ABIs parsed
TypeNames ==
    {<<"u", "i", "n", "t", "2", "5", "6">>,
     <<"U", "I", "N", "T", "8">>,
     <<"i", "n", "t", "6", "4">>,
     <<"u", "i", "n", "t", "7">>,
     <<"a", "d", "d", "r", "e", "s", "s">>,
     <<"b", "o", "o", "l">>,
     <<"s", "t", "r", "i", "n", "g">>,
     <<"b", "y", "t", "e", "s", "3", "2">>,
     <<"b", "y", "t", "e", "s">>,
     <<"a", "d", "d", "r", "e", "s", "s", "[", "]">>,
     <<"u", "i", "n", "t", "8", "[", "2", "]">>,
     <<"t", "u", "p", "l", "e">>}

Inputs ==
    UNION {[1..n -> {[name |-> <<"x">>, type_field |-> t] : t \in TypeNames}] :
                n \in 0..MaxAbiInputs}

Abis ==
    {[kind |-> "Ok", name |-> name, inputs |-> inputs] :
        name \in EventNames, inputs \in Inputs}
        \cup {[kind |-> "Err", reason |-> "serde_json"]}

AbiInit == \E abi \in Abis : codec = [pc |-> "abi", abi |-> abi, result |-> NoValue]

AbiSpecInit == SubInit /\ hdr = Idle /\ scan = Idle /\ strm = Idle /\ AbiInit

AbiNext == ParseEthAbi

AbiSpec == AbiSpecInit /\ [][AbiNext]_vars

RECURSIVE SignatureFrom(_, _)
\* the rest of an event signature from its i-th input type on
SignatureFrom(types, i) ==
    IF i > Len(types) THEN <<")">>
    ELSE (IF i > 1 THEN <<",">> ELSE <<>>) \o types[i] \o SignatureFrom(types, i + 1)

\* C12: for every event ABI parse_eth_abi accepts, the topic it returns is
\* the Keccak-256 hash of the event name, "(", the type strings of the inputs
\* in declaration order separated by ",", and ")".
C12_TopicIsHashOfSignature ==
    (codec.pc = "parsed" /\ codec.result.kind = "Ok") =>
        codec.result.topic =
            Keccak256(codec.abi.name \o <<"(">>
                \o SignatureFrom([i \in 1..Len(codec.abi.inputs) |->
                                    codec.abi.inputs[i].type_field], 1))

C12_Witness ==
    /\ codec.pc = "parsed"
    /\ codec.abi.kind = "Ok"
    /\ codec.abi.name = <<"L", "o", "c", "k">>
    /\ Len(codec.abi.inputs) = 2
    /\ codec.abi.inputs[1].type_field = <<"a", "d", "d", "r", "e", "s", "s">>
    /\ codec.abi.inputs[2].type_field = <<"u", "i", "n", "t", "2", "5", "6">>
    /\ codec.result.kind = "Ok"
    /\ codec.result.topic = Keccak256(<<"L", "o", "c", "k", "(", "a", "d", "d", "r", "e", "s", "s", ",", "u", "i", "n", "t", "2", "5", "6", ")">>)

\* the rows of the mapping table for the type strings drawn: the E-type and
\* the T-type of each
TableRows ==
    {[type_field |-> <<"u", "i", "n", "t", "2", "5", "6">>, eth |-> UintT(256), ton |-> UintT(256)],
     [type_field |-> <<"U", "I", "N", "T", "8">>, eth |-> UintT(8), ton |-> UintT(8)],
     [type_field |-> <<"i", "n", "t", "6", "4">>, eth |-> IntT(64), ton |-> IntT(64)],
     [type_field |-> <<"a", "d", "d", "r", "e", "s", "s">>, eth |-> AddressT, ton |-> BytesT],
     [type_field |-> <<"b", "o", "o", "l">>, eth |-> BoolT, ton |-> BoolT],
     [type_field |-> <<"s", "t", "r", "i", "n", "g">>, eth |-> StringT, ton |-> BytesT],
     [type_field |-> <<"b", "y", "t", "e", "s", "3", "2">>, eth |-> FixedBytesT(32), ton |-> FixedBytesT(32)],
     [type_field |-> <<"b", "y", "t", "e", "s">>, eth |-> BytesT, ton |-> BytesT],
     [type_field |-> <<"a", "d", "d", "r", "e", "s", "s", "[", "]">>, eth |-> ArrayT(AddressT), ton |-> ArrayT(BytesT)],
     [type_field |-> <<"u", "i", "n", "t", "8", "[", "2", "]">>, eth |-> FixedArrayT(UintT(8), 2), ton |-> FixedArrayT(UintT(8), 2)]}

TupleName == <<"t", "u", "p", "l", "e">>

InTable(type_field) ==
    type_field = TupleName \/ \E row \in TableRows : row.type_field = type_field

\* eth and ton are what the table gives for the type string
TableGives(type_field, eth, ton) ==
    IF type_field = TupleName THEN eth.t = "Tuple" /\ ton.t = "Tuple"
    ELSE \E row \in TableRows :
            row.type_field = type_field /\ row.eth = eth /\ row.ton = ton

\* C14: parse_eth_abi accepts an event ABI whose inputs use any E-type of the
\* mapping table (dynamic bytes, string, arrays T[] and T[N] and tuples
\* included) and returns for each input the E-type and the T-type the table
\* gives; an array type such as address[] is never parsed as its element type.
C14_TableTypesAccepted ==
    (/\ codec.pc = "parsed"
     /\ codec.abi.kind = "Ok"
     /\ \A i \in DOMAIN codec.abi.inputs : InTable(codec.abi.inputs[i].type_field)) =>
        /\ codec.result.kind = "Ok"
        /\ \A i \in DOMAIN codec.abi.inputs :
                TableGives(codec.abi.inputs[i].type_field,
                           codec.result.eth_abi_params[i],
                           codec.result.ton_abi_params[i])

(***************************************************************************)
(* Part VII.  Values and type names the codec is handed that need not fit  *)
(* the E-ABI type                                                          *)
(***************************************************************************)
Bytes20 == [i \in 1..20 |-> i]

ShapeTypes ==
    {UintT(8), IntT(8), BoolT, BytesT, FixedBytesT(1), FixedBytesT(2), AddressT, StringT,
     ArrayT(UintT(8)), FixedArrayT(UintT(8), 1), FixedArrayT(UintT(8), 2),
     TupleT(<<UintT(8)>>), TupleT(<<UintT(8), BoolT>>)}

EthOne == [kind |-> "Uint", word |-> Word(<<1>>, 0, 0)]

EthTrue == [kind |-> "Bool", b |-> TRUE]

\* one or two E values of every variant of ethabi::Token
ShapeEthValues ==
    {EthOne, [kind |-> "Int", word |-> Word(<<>>, 255, 255)], EthTrue,
     [kind |-> "Bytes", bytes |-> <<1, 2>>],
     [kind |-> "FixedBytes", bytes |-> <<1>>], [kind |-> "FixedBytes", bytes |-> <<1, 2>>],
     [kind |-> "Address", bytes |-> Bytes20], [kind |-> "String", bytes |-> <<104, 105>>],
     [kind |-> "Array", items |-> <<EthOne>>], [kind |-> "Array", items |-> <<EthTrue>>],
     [kind |-> "FixedArray", items |-> <<EthOne>>],
     [kind |-> "FixedArray", items |-> <<EthOne, EthOne>>],
     [kind |-> "Tuple", items |-> <<EthOne>>],
     [kind |-> "Tuple", items |-> <<EthOne, EthTrue>>],
     [kind |-> "Tuple", items |-> <<EthTrue, EthOne>>]}

TonOne == [kind |-> "Uint", number |-> <<1>>, size |-> 8]

TonTrue == [kind |-> "Bool", b |-> TRUE]

TonField(value) == [name |-> "", value |-> value]

\* T values of the variants of ton_abi::TokenValue, those the codec has no
\* arm for included, and an unsigned integer of more than 256 bits
ShapeTonValues ==
    {TonOne, [kind |-> "Int", number |-> from_biguint("Minus", <<1>>), size |-> 8], TonTrue,
     [kind |-> "Uint", number |-> Magnitude(<<>>, MaxMagnitudeBytes, 0, 1), size |-> 256],
     [kind |-> "Bytes", bytes |-> <<104, 105>>], [kind |-> "Bytes", bytes |-> Bytes20],
     [kind |-> "Bytes", bytes |-> SubSeq(Bytes20, 1, 19)],
     [kind |-> "Bytes", bytes |-> Bytes20 \o <<21>>],
     [kind |-> "FixedBytes", bytes |-> <<1>>], [kind |-> "FixedBytes", bytes |-> <<1, 2>>],
     [kind |-> "Array", items |-> <<TonOne>>], [kind |-> "Array", items |-> <<TonTrue>>],
     [kind |-> "FixedArray", items |-> <<TonOne>>],
     [kind |-> "FixedArray", items |-> <<TonOne, TonOne>>],
     [kind |-> "FixedArray", items |-> <<TonOne, TonTrue>>],
     [kind |-> "Tuple", tokens |-> <<TonField(TonOne)>>],
     [kind |-> "Tuple", tokens |-> <<TonField(TonOne), TonField(TonTrue)>>],
     [kind |-> "Tuple", tokens |-> <<TonField(TonTrue), TonField(TonOne)>>],
     [kind |-> "Address", workchain_id |-> 0, address |-> <<1>>],
     [kind |-> "Cell"], [kind |-> "Gram", grams |-> 1]}

\* type names, those no arm of eth_param_from_str matches included
ShapeNames ==
    TypeNames \cup {<<"f", "u", "n", "c", "t", "i", "o", "n">>, <<"f", "i", "x", "e", "d", "1", "2", "8", "x", "1", "8">>, <<"T", "u", "p", "l", "e">>, <<>>}

ShapeInit ==
    \/ \E token \in ShapeNames : codec = [pc |-> "token", token |-> token, result |-> NoValue]
    \/ \E eth \in ShapeEthValues, abi \in ShapeTypes :
            codec = [pc |-> "eth", abi |-> abi, eth |-> eth, ton |-> NoValue, back |-> NoValue]
    \/ \E ton \in ShapeTonValues, abi \in ShapeTypes :
            codec = [pc |-> "ton", abi |-> abi, eth |-> NoValue, ton |-> ton, back |-> NoValue]

ShapeSpecInit == SubInit /\ hdr = Idle /\ scan = Idle /\ strm = Idle /\ ShapeInit

ShapeNext == EthParamFromStr \/ EthToTon \/ TonToEth

ShapeSpec == ShapeSpecInit /\ [][ShapeNext]_vars

\* the type names eth_param_from_str has an arm for
HasArm(token) ==
    \E prefix \in {<<"u", "i", "n", "t">>, <<"i", "n", "t">>, <<"a", "d", "d", "r", "e", "s", "s">>, <<"b", "o", "o", "l">>, <<"s", "t", "r", "i", "n", "g">>, <<"b", "y", "t", "e", "s">>} :
        starts_with(to_lowercase(token), prefix)

\* C15: the codec reports an unsupported type as a failure value and never
\* crashes: eth_param_from_str, map_eth_to_ton_with_abi and
\* map_ton_to_eth_with_abi return an error for every type name or value
\* variant they do not handle.
C15_UnsupportedIsAnError ==
    /\ codec.pc = "param" =>
            /\ codec.result.kind # "Panic"
            /\ ~HasArm(codec.token) => codec.result.kind = "Err"
    /\ (codec.pc \in {"ton", "back"} /\ codec.eth # NoValue) => codec.ton.kind # "Panic"
    /\ codec.pc = "back" =>
            /\ codec.back.kind # "Panic"
            /\ codec.ton.kind \in {"Address", "Cell", "Gram"} => codec.back.kind = "Err"

RECURSIVE TonMatches(_, _)
\* the shape of the T value is the one of the E-ABI type
TonMatches(ton, abi) ==
    CASE abi.t = "Uint" -> ton.kind = "Uint"
      [] abi.t = "Int" -> ton.kind = "Int"
      [] abi.t = "Bool" -> ton.kind = "Bool"
      [] abi.t = "Bytes" -> ton.kind = "Bytes"
      [] abi.t = "String" -> ton.kind = "Bytes"
      [] abi.t = "Address" -> ton.kind = "Bytes" /\ Len(ton.bytes) = 20
      [] abi.t = "FixedBytes" -> ton.kind = "FixedBytes" /\ Len(ton.bytes) = abi.size
      [] abi.t = "Array" ->
            /\ ton.kind = "Array"
            /\ \A i \in DOMAIN ton.items : TonMatches(ton.items[i], abi.param)
      [] abi.t = "FixedArray" ->
            /\ ton.kind = "FixedArray"
            /\ Len(ton.items) = abi.size
            /\ \A i \in DOMAIN ton.items : TonMatches(ton.items[i], abi.param)
      [] abi.t = "Tuple" ->
            /\ ton.kind = "Tuple"
            /\ Len(ton.tokens) = Len(abi.params)
            /\ \A i \in DOMAIN ton.tokens : TonMatches(ton.tokens[i].value, abi.params[i])

RECURSIVE EthMatches(_, _)
\* the E value is of the variant and the lengths of the E-ABI type
EthMatches(eth, abi) ==
    CASE abi.t \in {"Uint", "Int", "Bool", "Bytes", "String", "Address"} -> eth.kind = abi.t
      [] abi.t = "FixedBytes" -> eth.kind = "FixedBytes" /\ Len(eth.bytes) = abi.size
      [] abi.t = "Array" ->
            /\ eth.kind = "Array"
            /\ \A i \in DOMAIN eth.items : EthMatches(eth.items[i], abi.param)
      [] abi.t = "FixedArray" ->
            /\ eth.kind = "FixedArray"
            /\ Len(eth.items) = abi.size
            /\ \A i \in DOMAIN eth.items : EthMatches(eth.items[i], abi.param)
      [] abi.t = "Tuple" ->
            /\ eth.kind = "Tuple"
            /\ Len(eth.items) = Len(abi.params)
            /\ \A i \in DOMAIN eth.items : EthMatches(eth.items[i], abi.params[i])

\* C17: map_eth_to_ton_with_abi returns a failure, never a T value, whenever
\* the E value does not match the E-ABI type: a variant other than the one of
\* the ABI type (bytes, bool, address or string under a uint ABI), a fixed
\* array whose length is not the ABI size, or a tuple of another arity.
C17_EthShapeMismatchIsAnError ==
    (/\ codec.pc \in {"ton", "back"}
     /\ codec.eth # NoValue
     /\ ~EthMatches(codec.eth, codec.abi)) => codec.ton.kind = "Err"

(***************************************************************************)
(* Part VIII.  Decoding the data cell of a T-chain event                   *)
(*                                                                         *)
(* A cell is its data bits and its references; a referenced cell holds     *)
(* bytes and has no references of its own.                                 *)
(***************************************************************************)
\* bits of the longest cell decoded
MaxCellBits == 17

RECURSIVE BitsValue(_)
\* the unsigned integer written big-endian in the bits
BitsValue(bits) ==
    IF bits = <<>> THEN 0
    ELSE 2 * BitsValue(SubSeq(bits, 1, Len(bits) - 1)) + bits[Len(bits)]

\* the data bits of a cell holding the bytes
BytesBits(bytes) ==
    [i \in 1..(8 * Len(bytes)) |-> (bytes[((i - 1) \div 8) + 1] \div 2^(7 - ((i - 1) % 8))) % 2]

\* find_next_bits of ton_abi: an exhausted slice continues in its only reference
find_next_bits(cursor, bits) ==
    LET next == IF cursor.bits # <<>> THEN [kind |-> "Ok", cursor |-> cursor]
                ELSE IF Len(cursor.refs) # 1 THEN Err("IncompleteDeserializationError")
                ELSE [kind |-> "Ok",
                      cursor |-> [bits |-> BytesBits(cursor.refs[1]), refs |-> <<>>]]
    IN  IF next.kind = "Err" THEN next
        ELSE IF Len(next.cursor.bits) >= bits THEN next
        ELSE Err("Not enough remaining bits in the cell")

\* TonTokenValue::read_from(param_type, cursor, last, abi_version) with
\* abi_version = 2, for uint<N> of up to a byte, bool and bytes
read_from(param_type, cursor, last) ==
    CASE param_type.t \in {"Uint", "Bool"} ->
            LET size == IF param_type.t = "Bool" THEN 1 ELSE param_type.size
                found == find_next_bits(cursor, size)
            IN  IF found.kind = "Err" THEN found
                ELSE [kind |-> "Ok",
                      value |-> IF param_type.t = "Bool"
                                THEN [kind |-> "Bool", b |-> found.cursor.bits[1] = 1]
                                ELSE [kind |-> "Uint",
                                      number |-> Normalized(
                                        <<BitsValue(SubSeq(found.cursor.bits, 1, size))>>),
                                      size |-> size],
                      cursor |-> [found.cursor EXCEPT
                                    !.bits = SubSeq(@, size + 1, Len(@))]]
      [] param_type.t = "Bytes" ->
            IF cursor.refs = <<>> THEN Err("Cell underflow")
            ELSE IF Len(cursor.refs) = 1 /\ ~last /\ cursor.bits = <<>>
            THEN Err("Cell underflow")
            ELSE [kind |-> "Ok",
                  value |-> [kind |-> "Bytes", bytes |-> Head(cursor.refs)],
                  cursor |-> [cursor EXCEPT !.refs = Tail(@)]]
      [] OTHER -> Err("unsupported type")

\* the check after the loop, without the references
NoBitsRemain(cursor) == cursor.bits = <<>>

\* `cursor.remaining_references() != 0 || cursor.remaining_bits() != 0` is false
NothingRemains(cursor) == cursor.refs = <<>> /\ cursor.bits = <<>>

\* `Some(ton_param_type) == ton_abi.last()` for the parameter at position i
IsLast(ton_abi, i) == ton_abi[i] = ton_abi[Len(ton_abi)]

RECURSIVE ReadTokens(_, _, _, _, _)
\* the loop of parse_eth_event_data from parameter i on; flags: the `last`
\* flags passed to read_from, in order
ReadTokens(eth_abi, ton_abi, cursor, tokens, i) ==
    IF i > Len(eth_abi)
    THEN [cursor |-> cursor, flags |-> <<>>,
          result |-> IF NothingRemains(cursor)
                     THEN [kind |-> "Ok", tokens |-> tokens]
                     ELSE Err("incomplete event data deserialization")]
    ELSE LET last == IsLast(ton_abi, i)
             read == read_from(ton_abi[i], cursor, last)
         IN  IF read.kind = "Err"
             THEN [cursor |-> cursor, flags |-> <<last>>, result |-> read]
             ELSE LET token == map_ton_to_eth_with_abi(read.value, eth_abi[i])
                  IN  IF Failed(token)
                      THEN [cursor |-> read.cursor, flags |-> <<last>>, result |-> token]
                      ELSE LET rest == ReadTokens(eth_abi, ton_abi, read.cursor,
                                                  Append(tokens, token), i + 1)
                           IN  [rest EXCEPT !.flags = <<last>> \o @]

\* the result, and the cursor where the function left it
parse_eth_event_data(eth_abi, ton_abi, data) ==
    IF Len(eth_abi) # Len(ton_abi)
    THEN [cursor |-> data, flags |-> <<>>,
          result |-> Err("TON and ETH ABI are different")]
    ELSE ReadTokens(eth_abi, ton_abi, data, <<>>, 1)

\* parse_eth_event_data(eth_abi, ton_abi, data)
ParseEthEventData ==
    /\ codec.pc = "cell"
    /\ LET parsed == parse_eth_event_data(codec.eth_abi, codec.ton_abi, codec.data)
       IN  codec' = [codec EXCEPT !.pc = "decoded",
                                  !.cursor = parsed.cursor,
                                  !.flags = parsed.flags,
                                  !.result = parsed.result]
    /\ UNCHANGED <<subVars, hdr, scan, strm>>

CellTypes == {UintT(8), BoolT, BytesT}

EventAbis == UNION {[1..n -> CellTypes] : n \in 0..MaxAbiInputs}

\* the T-ABI made of the E-ABI, one with a parameter less and one with a
\* parameter more
TonAbisFor(eth_abi) ==
    {map_eth_abi(eth_abi), Append(map_eth_abi(eth_abi), BoolT)}
        \cup (IF eth_abi = <<>> THEN {}
              ELSE {map_eth_abi(SubSeq(eth_abi, 1, Len(eth_abi) - 1))})

Cells ==
    {[bits |-> [i \in 1..n |-> IF ones THEN 1 ELSE i % 2], refs |-> refs] :
        n \in {m \in 0..MaxCellBits : m \in {0, 1, 2, 8, 9, 10, 16, 17}},
        ones \in BOOLEAN,
        refs \in {<<>>, <<<<104>>>>, <<<<104>>, <<105, 106>>>>,
                  <<<<1>>, <<2>>, <<3>>>>}}

CellInit ==
    \E eth_abi \in EventAbis, data \in Cells :
        \E ton_abi \in TonAbisFor(eth_abi) :
            codec = [pc |-> "cell", eth_abi |-> eth_abi, ton_abi |-> ton_abi, data |-> data,
                     cursor |-> NoValue, flags |-> <<>>, result |-> NoValue]

CellSpecInit == SubInit /\ hdr = Idle /\ scan = Idle /\ strm = Idle /\ CellInit

CellNext == ParseEthEventData

CellSpec == CellSpecInit /\ [][CellNext]_vars

\* C18: parse_eth_event_data returns the token list only when the cell was
\* consumed exactly: it fails when any bits or references remain unread
\* after one value has been read per ABI parameter, and it fails when the
\* E-ABI and T-ABI parameter lists differ in length.
C18_CellConsumedExactly ==
    codec.pc = "decoded" =>
        /\ codec.result.kind = "Ok" =>
                /\ Len(codec.eth_abi) = Len(codec.ton_abi)
                /\ Len(codec.result.tokens) = Len(codec.eth_abi)
                /\ codec.cursor.bits = <<>>
                /\ codec.cursor.refs = <<>>
        /\ Len(codec.eth_abi) # Len(codec.ton_abi) => codec.result.kind = "Err"

C18_Witness ==
    /\ codec.pc = "decoded"
    /\ codec.eth_abi = <<UintT(8), BytesT>>
    /\ codec.ton_abi = <<UintT(8), BytesT>>
    /\ Len(codec.data.bits) = 9
    /\ Len(codec.data.refs) = 1
    /\ codec.cursor = [bits |-> <<1>>, refs |-> <<>>]
    /\ codec.result = Err("incomplete event data deserialization")

(***************************************************************************)
(* Part IX.  The payload of a T-chain event signed for the E-chain         *)
(***************************************************************************)
\* ethabi pads an offset or a length to a 32-byte big-endian word
pad_u32(n) ==
    [i \in 1..WordBytes |->
        IF i <= WordBytes - 4 THEN 0 ELSE (n \div 2^(8 * (WordBytes - i))) % Byte]

\* bytes padded on the right to whole words
PadRight(bytes) ==
    bytes \o [i \in 1..((WordBytes - (Len(bytes) % WordBytes)) % WordBytes) |-> 0]

RECURSIVE IsDynamic(_)
\* Token::is_dynamic
IsDynamic(token) ==
    CASE token.kind \in {"Bytes", "String", "Array"} -> TRUE
      [] token.kind \in {"FixedArray", "Tuple"} ->
            \E i \in DOMAIN token.items : IsDynamic(token.items[i])
      [] OTHER -> FALSE

RECURSIVE Encoded(_)
RECURSIVE EncodeFrom(_, _, _)
RECURSIVE HeadsLen(_, _)

\* the bytes of the heads of the tokens from the i-th on
HeadsLen(tokens, i) ==
    IF i > Len(tokens) THEN 0
    ELSE (IF IsDynamic(tokens[i]) THEN WordBytes ELSE Len(Encoded(tokens[i])))
            + HeadsLen(tokens, i + 1)

\* heads and tails of the tokens from the i-th on, the next tail at `offset`
EncodeFrom(tokens, i, offset) ==
    IF i > Len(tokens) THEN [head |-> <<>>, tail |-> <<>>]
    ELSE LET e == Encoded(tokens[i])
             dynamic == IsDynamic(tokens[i])
             rest == EncodeFrom(tokens, i + 1, IF dynamic THEN offset + Len(e) ELSE offset)
         IN  [head |-> (IF dynamic THEN pad_u32(offset) ELSE e) \o rest.head,
              tail |-> (IF dynamic THEN e ELSE <<>>) \o rest.tail]

\* ethabi::encode(tokens)
encode(tokens) ==
    LET e == EncodeFrom(tokens, 1, HeadsLen(tokens, 1)) IN e.head \o e.tail

\* the encoding of one token
Encoded(token) ==
    CASE token.kind \in {"Uint", "Int"} -> Reverse(token.word)
      [] token.kind = "Bool" -> pad_u32(IF token.b THEN 1 ELSE 0)
      [] token.kind = "Address" ->
            [i \in 1..(WordBytes - Len(token.bytes)) |-> 0] \o token.bytes
      [] token.kind = "FixedBytes" -> PadRight(token.bytes)
      [] token.kind \in {"Bytes", "String"} ->
            pad_u32(Len(token.bytes)) \o PadRight(token.bytes)
      [] token.kind = "Array" -> pad_u32(Len(token.items)) \o encode(token.items)
      [] token.kind \in {"FixedArray", "Tuple"} -> encode(token.items)

RECURSIVE map_ton_to_eth(_)
map_ton_to_eth(token) ==
    CASE token.kind = "FixedBytes" -> [kind |-> "FixedBytes", bytes |-> token.bytes]
      [] token.kind = "Bytes" -> [kind |-> "Bytes", bytes |-> token.bytes]
      [] token.kind = "Uint" -> from_little_endian("Uint", to_bytes_le(token.number))
      [] token.kind = "Int" ->
            LET bytes == to_signed_bytes_le(token.number)
                sign == IF bytes = <<>> THEN 0 ELSE SignByte(bytes[Len(bytes)])
            IN  from_little_endian("Int", Resize(bytes, WordBytes, sign))
      [] token.kind = "Bool" -> [kind |-> "Bool", b |-> token.b]
      [] token.kind \in {"FixedArray", "Array"} ->
            LET c == Collect([i \in 1..Len(token.items) |-> map_ton_to_eth(token.items[i])])
            IN  IF c.failed THEN c.error ELSE [kind |-> token.kind, items |-> c.values]
      [] token.kind = "Tuple" ->
            LET c == Collect([i \in 1..Len(token.tokens) |->
                                map_ton_to_eth(token.tokens[i].value)])
            IN  IF c.failed THEN c.error ELSE [kind |-> "Tuple", items |-> c.values]
      [] OTHER -> Err("unsupported type")

\* ton_tokens_to_ethereum_bytes: a token that does not map is logged and left out
ton_tokens_to_ethereum_bytes(tokens) ==
    LET mapped == [i \in 1..Len(tokens) |-> map_ton_to_eth(tokens[i].value)]
    IN  IF \E i \in DOMAIN mapped : mapped[i] = Panic THEN Panic
        ELSE [kind |-> "Ok",
              bytes |-> encode(SelectSeq(mapped, LAMBDA x : x.kind # "Err"))]

RECURSIVE BigUintFrom(_)
\* BigUint::from of an unsigned machine integer
BigUintFrom(n) == IF n = 0 THEN <<>> ELSE <<n % Byte>> \o BigUintFrom(n \div Byte)

\* token_value() of u8, u16, u32, u64
UintToken(n, size) == [kind |-> "Uint", number |-> BigUintFrom(n), size |-> size]

\* token_value() of UInt256
UInt256Token(bytes) == [kind |-> "Uint", number |-> from_bytes_be(bytes), size |-> 256]

\* token_value() of i8
I8Token(n) ==
    [kind |-> "Int",
     number |-> from_biguint(IF n < 0 THEN "Minus" ELSE "Plus",
                             BigUintFrom(IF n < 0 THEN 0 - n ELSE n)),
     size |-> 8]

\* `as i8` of an i32
AsI8(n) == ((n + 128) % Byte) - 128

\* the fields of the tuple with required_rejects before required_confirmations
PayloadFieldsSwapped(address, details, event, event_data) ==
    <<map_ton_to_eth(UInt256Token(event.event_transaction)),
      map_ton_to_eth(UintToken(event.event_transaction_lt, 64)),
      map_ton_to_eth(UintToken(event.event_timestamp, 32)),
      map_ton_to_eth(UintToken(event.event_index, 32)),
      map_ton_to_eth([kind |-> "Bytes", bytes |-> event_data]),
      map_ton_to_eth(I8Token(AsI8(address.workchain_id))),
      map_ton_to_eth(UInt256Token(address.address)),
      map_ton_to_eth(UintToken(details.event_required_rejects, 16)),
      map_ton_to_eth(UintToken(details.event_required_confirmations, 16)),
      [kind |-> "Address", bytes |-> details.proxy_address]>>

\* the vec! of prepare_ton_event_payload
PayloadFields(address, details, event, event_data) ==
    <<map_ton_to_eth(UInt256Token(event.event_transaction)),
      map_ton_to_eth(UintToken(event.event_transaction_lt, 64)),
      map_ton_to_eth(UintToken(event.event_timestamp, 32)),
      map_ton_to_eth(UintToken(event.event_index, 32)),
      map_ton_to_eth([kind |-> "Bytes", bytes |-> event_data]),
      map_ton_to_eth(I8Token(AsI8(address.workchain_id))),
      map_ton_to_eth(UInt256Token(address.address)),
      map_ton_to_eth(UintToken(details.event_required_confirmations, 16)),
      map_ton_to_eth(UintToken(details.event_required_rejects, 16)),
      [kind |-> "Address", bytes |-> details.proxy_address]>>

\* the result, and the local event_data
prepare_ton_event_payload(address, details, event) ==
    LET event_data == ton_tokens_to_ethereum_bytes(event.tokens)
    IN  IF event_data = Panic THEN [event_data |-> Panic, result |-> Panic]
        ELSE LET c == Collect(PayloadFields(address, details, event, event_data.bytes))
             IN  [event_data |-> event_data,
                  result |-> IF c.failed THEN c.error
                             ELSE [kind |-> "Ok",
                                   bytes |-> encode(<<[kind |-> "Tuple",
                                                       items |-> c.values]>>)]]

\* prepare_ton_event_payload(address, details, event)
PrepareTonEventPayload ==
    /\ codec.pc = "event"
    /\ LET prepared == prepare_ton_event_payload(codec.address, codec.details, codec.event)
       IN  codec' = [codec EXCEPT !.pc = "payload",
                                  !.event_data = prepared.event_data,
                                  !.result = prepared.result]
    /\ UNCHANGED <<subVars, hdr, scan, strm>>

Bytes32 == [i \in 1..WordBytes |-> 255 - i]

TonAddressValue == [kind |-> "Address", workchain_id |-> 0, address |-> Bytes32]

\* the decoded tokens of an event, T addresses and cells among them
TokenLists ==
    {<<>>, <<TonField(TonOne)>>,
     <<TonField(TonOne), TonField([kind |-> "Bytes", bytes |-> <<104, 105>>])>>,
     <<TonField(TonAddressValue)>>,
     <<TonField(TonOne), TonField(TonAddressValue)>>,
     <<TonField(TonAddressValue), TonField(TonTrue)>>,
     <<TonField([kind |-> "Tuple", tokens |-> <<TonField(TonOne), TonField([kind |-> "Cell"])>>])>>}

Events ==
    {[event_transaction |-> tx, event_transaction_lt |-> lt, event_timestamp |-> 1600000000,
      event_index |-> index, tokens |-> tokens] :
        tx \in {Bytes32, [i \in 1..WordBytes |-> IF i = WordBytes THEN 1 ELSE 0]},
        lt \in {0, 1, 2^24 + 5}, index \in {0, 3}, tokens \in TokenLists}

EventInit ==
    \E event \in Events, wid \in {0 - 1, 0, 127}, rejects \in {1, 300} :
        codec = [pc |-> "event",
                 address |-> [workchain_id |-> wid, address |-> Reverse(Bytes32)],
                 details |-> [event_required_confirmations |-> 2,
                              event_required_rejects |-> rejects,
                              proxy_address |-> Bytes20],
                 event |-> event, event_data |-> NoValue, result |-> NoValue]

EventSpecInit == SubInit /\ hdr = Idle /\ scan = Idle /\ strm = Idle /\ EventInit

EventNext == PrepareTonEventPayload

EventSpec == EventSpecInit /\ [][EventNext]_vars

\* the 32-byte big-endian word of an unsigned integer below 2^31
WordOf(n) ==
    [i \in 1..28 |-> 0] \o <<n \div 2^24, (n \div 2^16) % 256, (n \div 2^8) % 256, n % 256>>

\* the 32-byte two's complement word of an int8
Int8Word(n) ==
    IF n < 0 THEN [i \in 1..31 |-> 255] \o <<256 + n>> ELSE [i \in 1..31 |-> 0] \o <<n>>

\* C19: prepare_ton_event_payload returns the E-ABI encoding of one tuple of
\* exactly ten fields in this order: event_transaction, event_transaction_lt,
\* event_timestamp, event_index, event_data (bytes), the workchain id of the
\* configuration (int8), the address of the configuration (uint),
\* required_confirmations, required_rejects and proxy_address (address); so
\* the bytes are a function of the inputs.
C19_PayloadIsTenFieldTuple ==
    (codec.pc = "payload" /\ codec.result.kind = "Ok") =>
        codec.result.bytes =
            WordOf(32)
            \o codec.event.event_transaction
            \o WordOf(codec.event.event_transaction_lt)
            \o WordOf(codec.event.event_timestamp)
            \o WordOf(codec.event.event_index)
            \o WordOf(10 * 32)
            \o Int8Word(codec.address.workchain_id)
            \o codec.address.address
            \o WordOf(codec.details.event_required_confirmations)
            \o WordOf(codec.details.event_required_rejects)
            \o [i \in 1..12 |-> 0] \o codec.details.proxy_address
            \o WordOf(Len(codec.event_data.bytes))
            \o PadRight(codec.event_data.bytes)

C19_Witness ==
    /\ codec.pc = "payload"
    /\ codec.result.kind = "Ok"
    /\ codec.address.workchain_id = 0 - 1
    /\ codec.details.event_required_rejects = 300
    /\ Len(codec.event.tokens) = 2
    /\ Len(codec.event_data.bytes) = 4 * 32
    /\ Len(codec.result.bytes) = 16 * 32

RECURSIVE Translatable(_)
\* the T value has an E-ABI value: it holds no variant other than integers,
\* booleans, bytes, arrays and tuples
Translatable(value) ==
    CASE value.kind \in {"Uint", "Int", "Bool", "Bytes", "FixedBytes"} -> TRUE
      [] value.kind \in {"Array", "FixedArray"} ->
            \A i \in DOMAIN value.items : Translatable(value.items[i])
      [] value.kind = "Tuple" ->
            \A i \in DOMAIN value.tokens : Translatable(value.tokens[i].value)
      [] OTHER -> FALSE

\* C20: if any token of a T-chain event cannot be translated to an E-ABI
\* value, prepare_ton_event_payload fails instead of returning an encoding
\* of event_data from which that token is omitted.
C20_UntranslatableTokenFails ==
    (/\ codec.pc = "payload"
     /\ \E i \in DOMAIN codec.event.tokens : ~Translatable(codec.event.tokens[i].value)) =>
        codec.result.kind = "Err"

(***************************************************************************)
(* Part X.  Making the contract of T-chain swap-back events                *)
(*                                                                         *)
(* A u32 is a pair of limbs, low limb first.                               *)
(***************************************************************************)
\* a mask that keeps all 32 bits
MaskAllBits == <<Limb - 1, Limb - 1>>

\* 0x7FFFFFFF
MaskTopBit == <<Limb - 1, (Limb \div 2) - 1>>

\* x & mask, for a mask whose limbs are of the form 2^k - 1
BitAnd(x, mask) == [i \in 1..Len(x) |-> x[i] % (mask[i] + 1)]

\* event_abi is what serde_json::from_str made of the text; function_id is
\* abi.get_function_id() of the event; subscribed is the outcome of
\* transport.subscribe_full
make_ton_swapback_contract(event_abi, function_id, subscribed) ==
    IF event_abi.kind = "Err" THEN [kind |-> "Err", reason |-> "InvalidAbi"]
    ELSE LET id == IF event_abi.id # None THEN event_abi.id[1]
                   ELSE BitAnd(function_id, MaskTopBit)
         IN  IF ~subscribed THEN [kind |-> "Err", reason |-> "Transport"]
             ELSE [kind |-> "Ok", abi |-> [abi_version |-> 2, name |-> event_abi.name, id |-> id]]

\* make_ton_swapback_contract(transport, account, event_abi)
MakeTonSwapbackContract ==
    /\ strm.pc = "make"
    /\ strm' = [strm EXCEPT !.pc = "made",
                            !.result = make_ton_swapback_contract(
                                            strm.event_abi, strm.function_id, strm.subscribed)]
    /\ UNCHANGED <<subVars, hdr, scan, codec>>

\* u32 values around the top bit
EdgeU32 ==
    {<<0, 0>>, <<1, 0>>, <<Limb - 1, (Limb \div 2) - 1>>, <<0, Limb \div 2>>,
     <<5, Limb \div 2>>, <<7, (Limb \div 2) + 9>>, <<Limb - 1, Limb - 1>>}

SwapBackEventAbis ==
    {[kind |-> "Ok", name |-> "TokenBurn", id |-> id] :
        id \in {None} \cup {Some(x) : x \in EdgeU32}}
        \cup {[kind |-> "Err", reason |-> "serde_json"]}

SwapbackInit ==
    \E event_abi \in SwapBackEventAbis, function_id \in EdgeU32, subscribed \in BOOLEAN :
        strm = [pc |-> "make", event_abi |-> event_abi, function_id |-> function_id,
                subscribed |-> subscribed, result |-> NoValue]

SwapbackSpecInit == SubInit /\ hdr = Idle /\ scan = Idle /\ SwapbackInit /\ codec = Idle

SwapbackNext == MakeTonSwapbackContract

SwapbackSpec == SwapbackSpecInit /\ [][SwapbackNext]_vars

\* the u32 is below 2^31
Below2To31(x) == x[2] < Limb \div 2

\* the u32 with 2^31 taken off when it is at least 2^31
TopBitCleared(x) == IF Below2To31(x) THEN x ELSE <<x[1], x[2] - (Limb \div 2)>>

\* C21: make_ton_swapback_contract uses the explicit id of the event ABI as
\* the event id when one is given, and otherwise the computed function id
\* with its top bit cleared, so a defaulted event id is always below 2^31.
C21_EventIdExplicitOrMasked ==
    (strm.pc = "made" /\ strm.result.kind = "Ok") =>
        IF strm.event_abi.id # None
        THEN strm.result.abi.id = strm.event_abi.id[1]
        ELSE /\ strm.result.abi.id = TopBitCleared(strm.function_id)
             /\ Below2To31(strm.result.abi.id)

C21_Witness ==
    /\ strm.pc = "made"
    /\ strm.event_abi.kind = "Ok"
    /\ strm.event_abi.id = None
    /\ strm.function_id = <<7, (Limb \div 2) + 9>>
    /\ strm.result.kind = "Ok"
    /\ strm.result.abi.id = <<7, 9>>

(***************************************************************************)
(* Part XI.  The key file                                                  *)
(*                                                                         *)
(* Keys, salts and nonces are short byte strings.  The primitives of ring, *)
(* libsodium and the curve libraries are ideal: a derived key names the    *)
(* passphrase and the salt it was derived from, a sealed box opens exactly *)
(* under the key and the nonce it was sealed with, and a public key names  *)
(* its secret key.                                                         *)
(***************************************************************************)
HexDigits == <<"0", "1", "2", "3", "4", "5", "6", "7", "8", "9", "a", "b", "c", "d", "e", "f">>

RECURSIVE hex_encode(_)
\* hex::encode
hex_encode(bytes) ==
    IF bytes = <<>> THEN <<>>
    ELSE <<HexDigits[(Head(bytes) \div 16) + 1], HexDigits[(Head(bytes) % 16) + 1]>>
            \o hex_encode(Tail(bytes))

HexValue(c) == (CHOOSE i \in DOMAIN HexDigits : HexDigits[i] = ToLowerChar(c)) - 1

IsHexDigit(c) == \E i \in DOMAIN HexDigits : HexDigits[i] = ToLowerChar(c)

\* hex::decode
hex_decode(str) ==
    IF Len(str) % 2 # 0 \/ \E i \in DOMAIN str : ~IsHexDigit(str[i])
    THEN Err("FromHexError")
    ELSE [kind |-> "Ok",
          bytes |-> [i \in 1..(Len(str) \div 2) |->
                        16 * HexValue(str[2 * i - 1]) + HexValue(str[2 * i])]]

\* a key derived from the salt alone
KeyFromSaltOnly(password, salt) == <<0>> \o salt

\* KeyData::symmetric_key_from_password: pbkdf2::derive
symmetric_key_from_password(password, salt) == <<Len(password)>> \o password \o salt

\* secretbox::seal(plain, nonce, key): the authenticator, then the masked bytes
seal(plain, nonce, key) ==
    <<Len(key)>> \o key \o nonce
        \o [i \in 1..Len(plain) |-> (plain[i] + key[((i - 1) % Len(key)) + 1]) % Byte]

\* secretbox::open(encrypted, nonce, key)
open(encrypted, nonce, key) ==
    LET tag == <<Len(key)>> \o key \o nonce
    IN  IF Len(encrypted) < Len(tag) \/ SubSeq(encrypted, 1, Len(tag)) # tag THEN Err("()")
        ELSE [kind |-> "Ok",
              bytes |-> [i \in 1..(Len(encrypted) - Len(tag)) |->
                            (encrypted[Len(tag) + i] + Byte - key[((i - 1) % Len(key)) + 1])
                                % Byte]]

\* PublicKey::from_secret_key, serialized
PublicKeyOf(secret) == <<2>> \o [i \in 1..Len(secret) |-> (secret[i] + 1) % Byte]

\* SecretKey::from_slice, ed25519_dalek::SecretKey::from_bytes: the length of a
\* key, a sixteenth of the 32 bytes of the libraries
SecretKeyLen == WordBytes \div 16

eth_private_key_from_encrypted(encrypted_key, key, nonce) ==
    LET opened == open(encrypted_key, nonce, key)
    IN  IF opened.kind = "Err" THEN Err("Failed decrypting eth SecretKey")
        ELSE IF Len(opened.bytes) # SecretKeyLen \/ \A i \in DOMAIN opened.bytes : opened.bytes[i] = 0
        THEN Err("Failed constructing SecretKey from decrypted data")
        ELSE [kind |-> "Ok", key |-> opened.bytes]

ton_private_key_from_encrypted(encrypted_key, key, nonce) ==
    LET opened == open(encrypted_key, nonce, key)
    IN  IF opened.kind = "Err" THEN Err("Failed decrypting with provided password")
        ELSE IF Len(opened.bytes) # SecretKeyLen THEN Err("failed to load ton key")
        ELSE [kind |-> "Ok",
              keypair |-> [secret |-> opened.bytes, public |-> PublicKeyOf(opened.bytes)]]

NoFile == [kind |-> "NoFile"]

\* to_writer_pretty(crypto_config, &data): every field as a hex string
WriteCryptoData(data) ==
    [kind |-> "File",
     salt |-> hex_encode(data.salt),
     eth_pubkey |-> hex_encode(data.eth_pubkey),
     eth_encrypted_private_key |-> hex_encode(data.eth_encrypted_private_key),
     eth_nonce |-> hex_encode(data.eth_nonce),
     ton_encrypted_private_key |-> hex_encode(data.ton_encrypted_private_key),
     ton_nonce |-> hex_encode(data.ton_nonce)]

\* from_reader(&file): CryptoData, or the first field that does not decode
ReadCryptoData(file) ==
    LET fields == <<hex_decode(file.salt), hex_decode(file.eth_pubkey),
                    hex_decode(file.eth_encrypted_private_key), hex_decode(file.eth_nonce),
                    hex_decode(file.ton_encrypted_private_key), hex_decode(file.ton_nonce)>>
    IN  IF \E i \in DOMAIN fields : fields[i].kind = "Err" THEN Err("serde_json")
        ELSE [kind |-> "Ok",
              salt |-> fields[1].bytes, eth_pubkey |-> fields[2].bytes,
              eth_encrypted_private_key |-> fields[3].bytes, eth_nonce |-> fields[4].bytes,
              ton_encrypted_private_key |-> fields[5].bytes, ton_nonce |-> fields[6].bytes]

\* KeyData::from_file(path, password), the file being what is at the path
from_file(file, password) ==
    IF file = NoFile THEN Err("io")
    ELSE LET crypto_data == ReadCryptoData(file)
         IN  IF crypto_data.kind = "Err" THEN crypto_data
             ELSE
             LET sym_key == symmetric_key_from_password(password, crypto_data.salt)
                 eth_private_key ==
                    eth_private_key_from_encrypted(crypto_data.eth_encrypted_private_key,
                                                   sym_key, crypto_data.eth_nonce)
                 ton_data ==
                    ton_private_key_from_encrypted(crypto_data.ton_encrypted_private_key,
                                                   sym_key, crypto_data.ton_nonce)
             IN  IF eth_private_key.kind = "Err" THEN eth_private_key
                 ELSE IF ton_data.kind = "Err" THEN ton_data
                 ELSE [kind |-> "Ok",
                       eth |-> [pubkey |-> crypto_data.eth_pubkey,
                                private_key |-> eth_private_key.key],
                       ton |-> ton_data.keypair]

\* KeyData::init with the salt and the nonces the generators gave: the file
\* written and the key data returned
init(password, eth_private_key, ton_key_pair, salt, eth_nonce, ton_nonce) ==
    LET key == symmetric_key_from_password(password, salt)
        data == [salt |-> salt,
                 eth_pubkey |-> PublicKeyOf(eth_private_key),
                 eth_encrypted_private_key |-> seal(eth_private_key, eth_nonce, key),
                 eth_nonce |-> eth_nonce,
                 ton_encrypted_private_key |-> seal(ton_key_pair.secret, ton_nonce, key),
                 ton_nonce |-> ton_nonce]
    IN  [file |-> WriteCryptoData(data),
         result |-> [kind |-> "Ok",
                     eth |-> [pubkey |-> PublicKeyOf(eth_private_key),
                              private_key |-> eth_private_key],
                     ton |-> ton_key_pair]]

\* PartialEq of KeyData: the E-chain signer, and the secret of the T-chain signer
KeyDataEq(a, b) == a.eth = b.eth /\ a.ton.secret = b.ton.secret

Paths == {"test_init.key", "test_bad.key"}

Passwords == {<<49, 50, 51>>, <<108, 111, 108>>}

SecretKeys == {<<65, 109>>, <<255, 1>>}

Salts == {<<7, 200>>, <<0, 16>>}

\* the two nonces of one init: different, or by chance the same
NoncePairs == {<<<<9>>, <<171>>>>, <<<<171>>, <<171>>>>}

\* KeyData::init(path, password, eth_private_key, ton_key_pair)
KeyInit ==
    /\ hdr.pc = "keys"
    /\ \E path \in Paths, password \in Passwords, eth_private_key \in SecretKeys,
          secret \in SecretKeys, salt \in Salts, nonces \in NoncePairs :
            LET made == init(password, eth_private_key,
                             [secret |-> secret, public |-> PublicKeyOf(secret)],
                             salt, nonces[1], nonces[2])
            IN  hdr' = [hdr EXCEPT !.files[path] = made.file,
                                   !.inited[path] = [password |-> password,
                                                     result |-> made.result],
                                   !.call = [op |-> "init", path |-> path],
                                   !.result = made.result]
    /\ UNCHANGED <<subVars, scan, strm, codec>>

\* KeyData::from_file(path, password)
KeyFromFile ==
    /\ hdr.pc = "keys"
    /\ \E path \in Paths, password \in Passwords :
            hdr' = [hdr EXCEPT !.call = [op |-> "from_file", path |-> path,
                                         password |-> password],
                               !.result = from_file(hdr.files[path], password)]
    /\ UNCHANGED <<subVars, scan, strm, codec>>

KeysInit ==
    hdr = [pc |-> "keys", files |-> [path \in Paths |-> NoFile],
           inited |-> [path \in Paths |-> NoValue],
           call |-> [op |-> "none"], result |-> NoValue]

KeysSpecInit == SubInit /\ KeysInit /\ scan = Idle /\ strm = Idle /\ codec = Idle

KeysNext == KeyInit \/ KeyFromFile

KeysSpec == KeysSpecInit /\ [][KeysNext]_vars

\* C22: KeyData::init followed by KeyData::from_file on the same file with
\* the same passphrase returns key data equal to what init returned (the same
\* E-chain key pair, the same T-chain secret); from_file with a different
\* passphrase returns an error and no key material.
C22_ReopenGivesTheSameKeys ==
    (/\ hdr.pc = "keys"
     /\ hdr.call.op = "from_file"
     /\ hdr.inited[hdr.call.path] # NoValue) =>
        IF hdr.inited[hdr.call.path].password = hdr.call.password
        THEN /\ hdr.result.kind = "Ok"
             /\ KeyDataEq(hdr.result, hdr.inited[hdr.call.path].result)
             /\ hdr.result.eth.pubkey = PublicKeyOf(hdr.result.eth.private_key)
        ELSE hdr.result.kind = "Err"

C22_Witness ==
    /\ hdr.pc = "keys"
    /\ hdr.call = [op |-> "from_file", path |-> "test_init.key", password |-> <<49, 50, 51>>]
    /\ hdr.inited["test_init.key"] # NoValue
    /\ hdr.inited["test_init.key"].password = <<49, 50, 51>>
    /\ hdr.inited["test_bad.key"] # NoValue
    /\ hdr.result.kind = "Ok"
    /\ hdr.result.eth.private_key = <<65, 109>>
    /\ hdr.result.ton.secret = <<255, 1>>

(***************************************************************************)
(* Part XII.  Signing for the E-chain                                      *)
(*                                                                         *)
(* Keccak-256 and the curve are stand-ins that keep the lengths of the     *)
(* real ones: a digest of 32 bytes, a compact signature of 64 bytes and a  *)
(* recovery id in 0..3, each a function of its arguments.                  *)
(***************************************************************************)
\* bytes of the longest payload signed
MaxPayloadLen == 3

RECURSIVE WeightedSum(_, _)
WeightedSum(data, i) ==
    IF data = <<>> THEN 0
    ELSE (WeightedSum(SubSeq(data, 1, Len(data) - 1), i)
            + (Len(data) + i) * data[Len(data)] + 1) % Byte

\* Keccak256::digest(data)
Keccak256Digest(data) == [i \in 1..WordBytes |-> (7 * i + WeightedSum(data, i)) % Byte]

\* secp.sign_recoverable(&message, &private_key).serialize_compact()
sign_recoverable(message, private_key) ==
    [id |-> (message[1] + private_key[1]) % 4,
     sign |-> [i \in 1..(2 * WordBytes) |->
                (message[((i - 1) % WordBytes) + 1]
                    + i * private_key[((i - 1) % Len(private_key)) + 1]) % Byte]]

\* "\x19Ethereum Signed Message:\n32"
EthSignedMessage32 == <<25, 69, 116, 104, 101, 114, 101, 117, 109, 32, 83, 105, 103, 110, 101, 100, 32, 77, 101, 115, 115, 97, 103, 101, 58, 10, 51, 50>>

\* the recovery id as it is
NoOffset(id) == id

\* id.to_i32() as u8 + 27
WithEthOffset(id) == (id + 27) % Byte

\* EthSigner::sign(data)
sign(private_key, data) ==
    LET data_hash == Keccak256Digest(data)
        eth_data == EthSignedMessage32 \o data_hash
        hash == Keccak256Digest(eth_data)
        signed == sign_recoverable(hash, private_key)
    IN  Append(signed.sign, WithEthOffset(signed.id))

\* signer.sign(data)
EthSign ==
    /\ hdr.pc = "signer"
    /\ hdr' = [hdr EXCEPT !.pc = "signed", !.result = sign(hdr.private_key, hdr.data)]
    /\ UNCHANGED <<subVars, scan, strm, codec>>

Payloads == UNION {[1..n -> {0, 104, 255}] : n \in 0..MaxPayloadLen}

SignerInit ==
    \E private_key \in SecretKeys, data \in Payloads :
        hdr = [pc |-> "signer", private_key |-> private_key, data |-> data, result |-> NoValue]

SignerSpecInit == SubInit /\ SignerInit /\ scan = Idle /\ strm = Idle /\ codec = Idle

SignerNext == EthSign

SignerSpec == SignerSpecInit /\ [][SignerNext]_vars

\* the EIP-191 personal message of m: 0x19, "Ethereum Signed Message:\n", the
\* decimal length of m, m
PersonalMessage(m) ==
    <<25>> \o <<69, 116, 104, 101, 114, 101, 117, 109, 32, 83, 105, 103, 110, 101, 100, 32, 77, 101, 115, 115, 97, 103, 101, 58, 10>>
        \o [i \in 1..Len(Decimal(Len(m))) |-> 48 + DigitValue(Decimal(Len(m))[i])]
        \o m

\* C23: EthSigner.sign(payload) returns exactly 65 bytes r||s||v, where (r, s)
\* is the recoverable secp256k1 signature over the keccak256 hash of the
\* EIP-191 personal-message prefix (length 32) followed by keccak256(payload),
\* and v = recovery id + 27; the bytes are a function of payload and key.
C23_SignatureIsRSV ==
    hdr.pc = "signed" =>
        LET signed == sign_recoverable(
                        Keccak256Digest(PersonalMessage(Keccak256Digest(hdr.data))),
                        hdr.private_key)
        IN  /\ Len(hdr.result) = 65
            /\ SubSeq(hdr.result, 1, 64) = signed.sign
            /\ hdr.result[65] = signed.id + 27
            /\ signed.id \in 0..3

C23_Witness ==
    /\ hdr.pc = "signed"
    /\ hdr.data = <<104, 0, 255>>
    /\ Len(hdr.result) = 65
    /\ hdr.result[65] \in 28..30

(***************************************************************************)
(* Part XIII.  The store of pending and failed votes, and the submitter    *)
(***************************************************************************)

\* TonSettings::default
message_retry_interval == 60

message_retry_count == 10

\* 1.5, as numerator and denominator
message_retry_interval_multiplier == <<3, 2>>

\* EthTonTransaction::get_hash: the E-chain transaction hash of the vote
get_hash(vote) == vote.event_transaction

\* PartialEq (and Hash) for EthTonConfirmationData: the transaction hash alone
ConfirmationDataEq(a, b) == a.event_transaction = b.event_transaction

\* the identity of an E->T vote
Identity(vote) == <<vote.configuration_id, vote.event_transaction, vote.event_index>>

RECURSIVE Power(_, _)
Power(base, exponent) == IF exponent = 0 THEN 1 ELSE base * Power(base, exponent - 1)

\* message_retry_interval * message_retry_interval_multiplier^(attempts-1), in seconds
RetryDelay(attempts) ==
    (message_retry_interval * Power(message_retry_interval_multiplier[1], attempts - 1))
        \div Power(message_retry_interval_multiplier[2], attempts - 1)

BudgetSpentOneLate(attempts) == attempts > message_retry_count + 1

\* the retry budget of a vote is spent
BudgetSpent(attempts) == attempts > message_retry_count

PendingVote(vote, attempts, retry_in) ==
    [envelope |-> [kind |-> "Confirm", vote |-> vote], attempts |-> attempts, retry_in |-> retry_in]

\* put, delete of a table of the store
Put(table, key, value) == [k \in DOMAIN table \cup {key} |-> IF k = key THEN value ELSE table[k]]

Delete(table, key) == [k \in DOMAIN table \ {key} |-> table[k]]

\* step 5 of the E->T handler: a vote of an identity the store already holds is
\* skipped, any other is persisted as pending
PersistVote(vote) ==
    /\ scan.pc = "votes"
    /\ scan' = IF \E k \in DOMAIN scan.pending :
                      ConfirmationDataEq(scan.pending[k].envelope.vote, vote)
               THEN [scan EXCEPT !.handled = Some(vote)]
               ELSE [scan EXCEPT !.handled = Some(vote),
                                 !.pending = Put(@, get_hash(vote), PendingVote(vote, 0, 0))]
    /\ UNCHANGED <<subVars, hdr, strm, codec>>

\* landed+success: the pending vote is deleted
VoteLanded(key) ==
    /\ scan.pc = "votes"
    /\ key \in DOMAIN scan.pending
    /\ scan' = [scan EXCEPT !.pending = Delete(@, key)]
    /\ UNCHANGED <<subVars, hdr, strm, codec>>

\* expired or landed+error: one more attempt is counted and the next retry is
\* scheduled; a vote whose budget is spent moves to the Failed table
VoteAttemptFailed(key, error) ==
    /\ scan.pc = "votes"
    /\ key \in DOMAIN scan.pending
    /\ LET vote == scan.pending[key]
           attempts == vote.attempts + 1
       IN  scan' =
             IF BudgetSpent(attempts)
             THEN [scan EXCEPT !.pending = Delete(@, key),
                               !.failed = Put(@, key, [envelope |-> vote.envelope, error |-> error])]
             ELSE [scan EXCEPT !.pending =
                        Put(@, key, [vote EXCEPT !.attempts = attempts,
                                                 !.retry_in = RetryDelay(attempts)])]
    /\ UNCHANGED <<subVars, hdr, strm, codec>>

\* the retry-failed command: every Failed entry goes back to Pending with
\* attempts = 0
RetryFailed ==
    /\ scan.pc = "votes"
    /\ scan.failed # <<>>
    /\ scan' = [scan EXCEPT
                  !.pending = [k \in DOMAIN scan.pending \cup DOMAIN scan.failed |->
                                 IF k \in DOMAIN scan.failed
                                 THEN PendingVote(scan.failed[k].envelope.vote, 0, 0)
                                 ELSE scan.pending[k]],
                  !.failed = <<>>]
    /\ UNCHANGED <<subVars, hdr, strm, codec>>

EventTransactions == {<<17>>, <<34>>}

EventIndexes == {0, 1}

EthVotes ==
    [configuration_id : {7}, event_transaction : EventTransactions, event_index : EventIndexes]

VoteErrors == {"expired", "landed+error"}

\* handled: the vote of the log the handler processed last
VotesInit == scan = [pc |-> "votes", pending |-> <<>>, failed |-> <<>>, handled |-> None]

VotesSpecInit == SubInit /\ VotesInit /\ hdr = Idle /\ strm = Idle /\ codec = Idle

VotesNext ==
    \/ \E vote \in EthVotes : PersistVote(vote)
    \/ \E key \in EventTransactions : VoteLanded(key)
    \/ \E key \in EventTransactions, error \in VoteErrors : VoteAttemptFailed(key, error)
    \/ RetryFailed

VotesSpec == VotesSpecInit /\ [][VotesNext]_vars

\* C24: every pending vote has attempts <= message_retry_count; a vote whose
\* attempts come to exceed message_retry_count is moved to the Failed table in
\* that same step and is no longer pending.
C24_AttemptsWithinBudgetOrFailed ==
    /\ [](scan.pc = "votes" =>
            \A k \in DOMAIN scan.pending : scan.pending[k].attempts <= message_retry_count)
    /\ [][\A key \in EventTransactions, error \in VoteErrors :
            (VoteAttemptFailed(key, error)
                /\ scan.pending[key].attempts + 1 > message_retry_count)
            => (key \notin DOMAIN scan'.pending
                /\ key \in DOMAIN scan'.failed
                /\ scan'.failed[key].envelope = scan.pending[key].envelope)]_vars

C24_Witness ==
    /\ scan.pc = "votes"
    /\ \E k \in DOMAIN scan.failed : k \notin DOMAIN scan.pending
    /\ \E k \in DOMAIN scan.pending :
        /\ scan.pending[k].attempts = message_retry_count
        /\ scan.pending[k].retry_in = 2306

PendingIdentities == {Identity(scan.pending[k].envelope.vote) : k \in DOMAIN scan.pending}

\* C25: the store holds at most one pending vote per identity (configuration_id,
\* event_transaction, event_index); a vote persisted by the handler is pending
\* afterwards next to every vote that was pending before, so two events of one
\* E-chain transaction that differ in event_index are both kept, and persisting
\* an identity again adds no second entry.
C25_OnePendingVotePerIdentity ==
    [][\A vote \in EthVotes :
          PersistVote(vote) =>
            /\ Identity(vote) \in PendingIdentities'
            /\ PendingIdentities \subseteq PendingIdentities'
            /\ Cardinality(DOMAIN scan'.pending) = Cardinality(PendingIdentities')]_vars

(***************************************************************************)
(* Part XIV.  Bridge configuration updates                                 *)
(***************************************************************************)

MaxNonce == 3

\* the view the client posts: nonce and quorums as entered, always active
update_bridge_configuration(nonce, confirmations, rejections) ==
    [nonce |-> nonce,
     bridge_update_required_confirmations |-> confirmations,
     bridge_update_required_rejections |-> rejections,
     active |-> TRUE]

Quorums == {1, 2}

\* the BridgeConfigurationUpdate notices of the T-chain: the updates relays
\* have proposed through their clients, and the same deactivating the bridge
UpdateNotices ==
    LET proposed == {update_bridge_configuration(nonce, confirmations, rejections) :
                        nonce \in 0..MaxNonce, confirmations \in Quorums, rejections \in Quorums}
    IN  proposed \cup {[update EXCEPT !.active = FALSE] : update \in proposed}

NotOlder(nonce, last) == last = None \/ nonce >= last[1]

\* an update is applied when its nonce is above the last accepted one
Newer(nonce, last) == last = None \/ nonce > last[1]

\* the registry observes a BridgeConfigurationUpdate notice
ObserveUpdate(update) ==
    /\ strm.pc = "registry"
    /\ strm' = IF Newer(update.nonce, strm.last_nonce)
               THEN [strm EXCEPT !.notice = Some(update),
                                 !.last_nonce = Some(update.nonce),
                                 !.confirmations = update.bridge_update_required_confirmations,
                                 !.rejections = update.bridge_update_required_rejections,
                                 !.active = update.active]
               ELSE [strm EXCEPT !.notice = Some(update)]
    /\ UNCHANGED <<subVars, hdr, scan, codec>>

\* notice: the notice observed last
RegistryInit ==
    \E confirmations \in Quorums, rejections \in Quorums :
        strm = [pc |-> "registry", last_nonce |-> None, notice |-> None,
                confirmations |-> confirmations, rejections |-> rejections, active |-> TRUE]

RegistrySpecInit == SubInit /\ RegistryInit /\ hdr = Idle /\ scan = Idle /\ codec = Idle

RegistryNext == \E update \in UpdateNotices : ObserveUpdate(update)

RegistrySpec == RegistrySpecInit /\ [][RegistryNext]_vars

\* C26: BridgeConfigurationUpdate notices are applied in strictly increasing
\* nonce order: the last accepted nonce only grows, an update is applied only
\* with a nonce above it, and an update whose nonce is less than or equal to it
\* changes neither the quorums nor the active flag, in whatever order the
\* updates are observed.
C26_UpdatesAppliedInNonceOrder ==
    [][\A update \in UpdateNotices :
          ObserveUpdate(update) =>
            IF strm.last_nonce # None /\ update.nonce <= strm.last_nonce[1]
            THEN /\ strm'.last_nonce = strm.last_nonce
                 /\ strm'.confirmations = strm.confirmations
                 /\ strm'.rejections = strm.rejections
                 /\ strm'.active = strm.active
            ELSE /\ strm'.last_nonce = Some(update.nonce)
                 /\ strm'.confirmations = update.bridge_update_required_confirmations
                 /\ strm'.rejections = update.bridge_update_required_rejections
                 /\ strm'.active = update.active]_vars

\* a stale deactivating update has been observed after a later one and ignored
C26_Witness ==
    /\ strm.pc = "registry"
    /\ strm.last_nonce = Some(2)
    /\ strm.notice # None
    /\ strm.notice[1].nonce = 1
    /\ ~strm.notice[1].active
    /\ strm.active
    /\ strm.confirmations # strm.notice[1].bridge_update_required_confirmations

(***************************************************************************)
(* Part XV.  The block window of the E->T handler                          *)
(***************************************************************************)

MaxLatest == 16

\* EthSettings::default
suspicious_blocks_offset == 10

ScanFromLastScanned(last_scanned) == last_scanned

\* the first block of the window
ScanFrom(last_scanned) == last_scanned + 1

\* the last block of the window
ScanTo(latest) == latest - suspicious_blocks_offset

BlockRange(from, to) == {block \in 0..MaxLatest : from <= block /\ block <= to}

\* the E-chain grows by a block
EthNewBlock ==
    /\ codec.pc = "window"
    /\ codec.latest < MaxLatest
    /\ codec' = [codec EXCEPT !.latest = @ + 1]
    /\ UNCHANGED <<subVars, hdr, scan, strm>>

\* a scan tick whose request for the logs of the window is answered: the logs
\* of every block of the window are handled and last_scanned is persisted
\* after the batch
ScanTick ==
    /\ codec.pc = "window"
    /\ LET from == ScanFrom(codec.last_scanned)
           to == ScanTo(codec.latest)
       IN  /\ from <= to
           /\ codec' = [codec EXCEPT
                          !.tick = Some([last_scanned |-> codec.last_scanned,
                                         latest |-> codec.latest,
                                         blocks |-> BlockRange(from, to), answered |-> TRUE]),
                          !.scans = [block \in DOMAIN @ |->
                                        IF block \in BlockRange(from, to) THEN @[block] + 1
                                        ELSE @[block]],
                          !.last_scanned = to]
    /\ UNCHANGED <<subVars, hdr, scan, strm>>

\* a scan tick whose request fails: the window is not advanced
ScanTickFails ==
    /\ codec.pc = "window"
    /\ LET from == ScanFrom(codec.last_scanned)
           to == ScanTo(codec.latest)
       IN  /\ from <= to
           /\ codec' = [codec EXCEPT
                          !.tick = Some([last_scanned |-> codec.last_scanned,
                                         latest |-> codec.latest,
                                         blocks |-> BlockRange(from, to), answered |-> FALSE])]
    /\ UNCHANGED <<subVars, hdr, scan, strm>>

StartBlocks == {1, 2, 3}

\* tick: the request of the last tick; scans: how often the logs of a block
\* have been handled
WindowInit ==
    \E start_block \in StartBlocks, latest \in {suspicious_blocks_offset, suspicious_blocks_offset + 1} :
        codec = [pc |-> "window", start_block |-> start_block, last_scanned |-> start_block - 1,
                 latest |-> latest, tick |-> None, scans |-> [block \in 0..MaxLatest |-> 0]]

WindowSpecInit == SubInit /\ WindowInit /\ hdr = Idle /\ scan = Idle /\ strm = Idle

WindowNext == EthNewBlock \/ ScanTick \/ ScanTickFails

WindowSpec == WindowSpecInit /\ [][WindowNext]_vars

\* C27: a scan tick requests exactly the blocks last_scanned + 1 up to
\* latest - suspicious_blocks_offset, both included: the block
\* latest - suspicious_blocks_offset is in the request and the next one is not;
\* across ticks every block from the start block up to last_scanned has been
\* scanned exactly once and no other block has been scanned.
C27_WindowIsExactAndGapless ==
    codec.pc = "window" =>
        /\ codec.tick # None =>
             LET tick == codec.tick[1]
             IN  /\ tick.blocks = {block \in 0..MaxLatest :
                                     /\ block >= tick.last_scanned + 1
                                     /\ block <= tick.latest - suspicious_blocks_offset}
                 /\ (tick.latest - suspicious_blocks_offset) \in tick.blocks
                 /\ (tick.latest - suspicious_blocks_offset + 1) \notin tick.blocks
        /\ \A block \in 0..MaxLatest :
             codec.scans[block] =
                IF block >= codec.start_block /\ block <= codec.last_scanned THEN 1 ELSE 0

\* two answered ticks, the second of more than one block
C27_Witness ==
    /\ codec.pc = "window"
    /\ codec.tick # None
    /\ codec.tick[1].answered
    /\ codec.tick[1].last_scanned >= codec.start_block
    /\ Cardinality(codec.tick[1].blocks) >= 2
    /\ codec.last_scanned = codec.latest - suspicious_blocks_offset

(***************************************************************************)
(* Part XVI.  The verification queue of the T->E handler                   *)
(***************************************************************************)

MaxAccountLt == 12

\* TonSettings::default
ton_events_verification_queue_lt_offset == 10

ton_events_allowed_time_diff == 10

AccountTimeSwapped(time) == <<time[2], time[1]>>

\* AccountSubscription::current_time: the pair (account lt, gen_utime) as the
\* subscription loop stored it
AccountTime(time) == time

Distance(a, b) == IF a >= b THEN a - b ELSE b - a

\* an item of the queue is verified on this tick
Verified(event, current_account_lt, now) ==
    /\ event.event_transaction_lt + ton_events_verification_queue_lt_offset <= current_account_lt
    /\ Distance(now, event.event_timestamp) <= ton_events_allowed_time_diff

\* step 3 of the T->E handler: the event is put into the queue
EnqueueEvent(event) ==
    /\ hdr.pc = "queue"
    /\ event \notin hdr.queue
    /\ event \notin {vote.data : vote \in hdr.votes}
    /\ hdr' = [hdr EXCEPT !.queue = @ \cup {event}]
    /\ UNCHANGED <<subVars, scan, strm, codec>>

\* the subscription loop stores the time of a later block
AccountTimeMoves(utime) ==
    /\ hdr.pc = "queue"
    /\ hdr.current_time[1] < MaxAccountLt
    /\ utime >= hdr.current_time[2]
    /\ hdr' = [hdr EXCEPT !.current_time = <<@[1] + 1, utime>>]
    /\ UNCHANGED <<subVars, scan, strm, codec>>

\* the clock of the relay
ClockMoves(now) ==
    /\ hdr.pc = "queue"
    /\ now > hdr.now
    /\ hdr' = [hdr EXCEPT !.now = now]
    /\ UNCHANGED <<subVars, scan, strm, codec>>

\* a verification tick: the verified items leave the queue and are voted for
VerifyTick ==
    /\ hdr.pc = "queue"
    /\ LET current_account_lt == AccountTime(hdr.current_time)[1]
           verified == {event \in hdr.queue : Verified(event, current_account_lt, hdr.now)}
       IN  /\ verified # {}
           /\ hdr' = [hdr EXCEPT
                        !.queue = @ \ verified,
                        !.votes = @ \cup {[kind |-> "Confirm", data |-> event,
                                           at_lt |-> hdr.current_time[1]] : event \in verified}]
    /\ UNCHANGED <<subVars, scan, strm, codec>>

Timestamps == {0, 11}

TonEvents == [event_transaction_lt : {1, 2}, event_timestamp : Timestamps]

\* votes: the Confirm votes cast, each with the account lt it was cast at
QueueInit ==
    hdr = [pc |-> "queue", queue |-> {}, votes |-> {}, current_time |-> <<0, 0>>, now |-> 0]

QueueSpecInit == SubInit /\ QueueInit /\ scan = Idle /\ strm = Idle /\ codec = Idle

QueueNext ==
    \/ \E event \in TonEvents : EnqueueEvent(event)
    \/ \E utime \in Timestamps : AccountTimeMoves(utime)
    \/ \E now \in Timestamps : ClockMoves(now)
    \/ VerifyTick

QueueSpec == QueueSpecInit /\ [][QueueNext]_vars

\* C28: an event is Confirm-voted only when event_transaction_lt +
\* ton_events_verification_queue_lt_offset <= the account lt the subscription
\* reported; while event_transaction_lt + offset > current lt a queued event
\* stays in the queue over a verification tick and has no Confirm vote.
C28_VerifiedOnlyBelowAccountLt ==
    /\ [](hdr.pc = "queue" =>
            /\ \A vote \in hdr.votes :
                 /\ vote.kind = "Confirm"
                 /\ vote.data.event_transaction_lt + ton_events_verification_queue_lt_offset
                        <= vote.at_lt
            /\ \A event \in hdr.queue :
                 event.event_transaction_lt + ton_events_verification_queue_lt_offset
                        > hdr.current_time[1]
                 => event \notin {vote.data : vote \in hdr.votes})
    /\ [][VerifyTick =>
            \A event \in hdr.queue :
                event.event_transaction_lt + ton_events_verification_queue_lt_offset
                        > hdr.current_time[1]
                => (event \in hdr'.queue /\ event \notin {vote.data : vote \in hdr'.votes})]_vars

\* one event voted for at exactly lt + offset while a later one stays queued
C28_Witness ==
    /\ hdr.pc = "queue"
    /\ hdr.current_time[1] = 11
    /\ \E vote \in hdr.votes :
        /\ vote.data.event_transaction_lt = 1
        /\ vote.at_lt = 11
    /\ \E event \in hdr.queue :
        /\ event.event_transaction_lt = 2
        /\ Distance(hdr.now, event.event_timestamp) <= ton_events_allowed_time_diff

(***************************************************************************)
(* Part XVII.  Sending against block processing in the subscription        *)
(***************************************************************************)

\* the loop matches the transactions of the block it fetched
LoopMatches == lpc = "wantLock" /\ lpc' # "wantLock"

\* C29: send_message holds the write guard of the pending map from before the
\* node receives the message until the entry is inserted, and the loop matches
\* a block's transactions only when it can take the same guard; so the loop
\* never matches a block while a caller has transmitted a message and not yet
\* inserted its entry, and a transaction of a fully parsed block that carries
\* the hash of a sent message still pending lands that message's result.
C29_NoResultLostToTheRace ==
    [][/\ \A c \in Callers :
            (cpc[c] = "sending" /\ cpc'[c] = "awaitAck") =>
                /\ pending_lock.writer = c
                /\ pending_lock'.writer = c
                /\ cmsg[c].hash \in node_inbox'
       /\ \A c \in Callers :
            (cpc[c] = "awaitAck" /\ cpc'[c] = "waiting") =>
                /\ pending_lock.writer = c
                /\ pending_messages[cmsg[c].hash] = NoEntry
                /\ pending_messages'[cmsg[c].hash] # NoEntry
                /\ pending_messages'[cmsg[c].hash].tx = c
       /\ LoopMatches =>
            /\ pending_lock = FreeLock
            /\ \A c \in Callers : cpc[c] \notin {"sending", "awaitAck"}
            /\ \A c \in Callers :
                 (/\ cpc[c] = "waiting"
                  /\ fate[c] = "none"
                  /\ cmsg[c].hash \in InMsgs(node_block.txs)
                  /\ lpc' = "wantTime")
                 => (fate'[c] = "landed" /\ chan'[c] \in {"ok", "err"})]_vars

\* the loop has fetched a block holding a message whose sender has transmitted
\* it and not yet inserted the entry
C29_Witness ==
    /\ lpc = "wantLock"
    /\ \E c \in Callers :
        /\ cpc[c] = "awaitAck"
        /\ pending_lock.writer = c
        /\ cmsg[c].hash \in InMsgs(node_block.txs)
        /\ pending_messages[cmsg[c].hash] = NoEntry

\* C30: a pending message whose transaction is in a block with gen_utime above
\* the message's expires_at lands: the block's transactions are matched before
\* the expired entries are purged, the purge leaves the delivered result alone,
\* and the caller returns the landed result.
C30_LandingBeforeExpiry ==
    /\ [][(LoopMatches /\ lpc' = "wantTime") =>
            \A h \in InMsgs(node_block.txs) :
                (pending_messages[h] # NoEntry
                    /\ node_block.gen_utime > pending_messages[h].expires_at)
                => /\ pending_messages'[h] = NoEntry
                   /\ fate'[pending_messages[h].tx] = "landed"
                   /\ chan'[pending_messages[h].tx] \in {"ok", "err"}]_vars
    /\ [][(lpc = "wantTime" /\ lpc' = "top") =>
            \A c \in Callers :
                fate[c] = "landed" => (fate'[c] = "landed" /\ chan'[c] = chan[c])]_vars
    /\ [][\A c \in Callers :
            (cpc[c] = "waiting" /\ cpc'[c] = "returned" /\ fate[c] = "landed")
            => cres'[c] \in {"ok", "err"}]_vars

\* a message landed in a block generated after its expiry, the purge is due
C30_Witness ==
    /\ lpc = "wantTime"
    /\ \E c \in Callers :
        /\ cpc[c] = "waiting"
        /\ fate[c] = "landed"
        /\ chan[c] = "ok"
        /\ cmsg[c].hash \in blk_landed
        /\ cmsg[c].expire < node_block.gen_utime

(***************************************************************************)
(* Part XVIII.  The pending map, the cursor and the clock of the           *)
(* subscription                                                            *)
(***************************************************************************)

\* C31: a send_message whose transmission fails returns that error and leaves
\* the pending map as it was; an entry of the map always belongs to a call that
\* has neither landed nor expired, so a send_message is rejected as a duplicate
\* only against a message still pending, never against a hash that has landed
\* or was purged.
C31_FailedSendAndSpentHashLeaveNoEntry ==
    /\ [][\A c \in Callers :
            (cpc[c] \in {"sending", "awaitAck"} /\ cpc'[c] = "returned")
            => (cres'[c] = "send_failed" /\ pending_messages' = pending_messages)]_vars
    /\ [](\A h \in Hashes :
            pending_messages[h] # NoEntry =>
                LET owner == pending_messages[h].tx
                IN  /\ cpc[owner] = "waiting"
                    /\ cmsg[owner].hash = h
                    /\ fate[owner] = "none")
    /\ [](\A c \in Callers :
            (cpc[c] = "waiting" /\ fate[c] \in {"landed", "discarded"})
            => (pending_messages[cmsg[c].hash] = NoEntry
                    \/ pending_messages[cmsg[c].hash].tx # c))

\* a hash that landed for one caller is pending again for another
C31_Witness ==
    \E c, d \in Callers :
        /\ c # d
        /\ cpc[d] = "waiting" /\ fate[d] = "landed"
        /\ cpc[c] = "waiting" /\ fate[c] = "none"
        /\ cmsg[c].hash = cmsg[d].hash
        /\ pending_messages[cmsg[c].hash] # NoEntry
        /\ pending_messages[cmsg[c].hash].tx = c

\* the loop gives an iteration up and starts over
LoopGivesUp == lpc \in {"waitBlock", "getBlock", "wantLock"} /\ lpc' = "top"

\* C32: the cursor moves only at the end of an iteration, to the block that
\* follows it in the chain, which was fetched and whose transactions have all
\* been matched against the pending map; an iteration given up (waiting for the
\* block, fetching it, parsing it or one of its transactions) leaves the cursor
\* and the current time alone, purges nothing, and the block after the cursor
\* is the one attempted next.
C32_CursorAdvancesOverProcessedBlocks ==
    /\ [][(last_block_id' # last_block_id \/ current_time' # current_time) =>
            /\ lpc = "wantTime" /\ lpc' = "top"
            /\ node_block # NoBlock
            /\ node_block.id = NextId(last_block_id)
            /\ last_block_id' = node_block.id
            /\ current_time' = <<node_block.id, node_block.gen_utime>>
            /\ \A h \in InMsgs(node_block.txs) :
                 blk_start[h] # NoEntry => h \in blk_landed]_vars
    /\ [][LoopGivesUp =>
            /\ last_block_id' = last_block_id
            /\ current_time' = current_time
            /\ node_block' = node_block
            /\ \A h \in Hashes :
                 (pending_messages[h] # NoEntry /\ pending_messages'[h] = NoEntry)
                 => (h \in InMsgs(node_block.txs)
                        /\ fate'[pending_messages[h].tx] = "landed")]_vars
    /\ [](node_block # NoBlock => node_block.id = NextId(last_block_id))

\* the second transaction of the first block could not be parsed: the first one
\* has landed, the cursor and the time are where they were and the block is kept
C32_Witness ==
    /\ lpc = "top"
    /\ node_block # NoBlock
    /\ Len(node_block.txs) = 2
    /\ current_time = <<0, 0>>
    /\ last_block_id = 0
    /\ \E c \in Callers :
        /\ cpc[c] = "waiting"
        /\ fate[c] = "landed"
        /\ node_block.txs[1].in_msg = cmsg[c].hash

(***************************************************************************)
(* Part XIX.  One block attempted again by the subscription loop           *)
(***************************************************************************)

MaxBlockAttempts == 3

\* process_out_messages with an events channel: does the call send the event
\* message of the transaction on the channel
SendsEvent(tx) == tx.in_msg # NoMsg /\ tx.event

\* how often the first n transactions of a block send the event message of
\* transaction i to the events channel
RECURSIVE EventsSentBy(_, _, _)
EventsSentBy(txs, n, i) ==
    IF n = 0 THEN 0
    ELSE EventsSentBy(txs, n - 1, i) + (IF n = i /\ SendsEvent(txs[n]) THEN 1 ELSE 0)

\* lines 249-330 on a block with event messages: the write guard is taken, the
\* transactions are matched and their event messages sent, up to the first
\* that cannot be parsed
LoopAttemptBlock ==
    /\ strm.pc = "block"
    /\ strm.attempts < MaxBlockAttempts
    /\ \E parse \in ParseOutcomes(strm.block), failed \in SUBSET InMsgs(strm.block.txs) :
        LET n == IF parse = 0 THEN Len(strm.block.txs)
                 ELSE IF parse = -1 THEN 0 ELSE parse - 1
            st == ProcessTransactions(strm.block.txs, n,
                      [pending |-> strm.pending, chan |-> strm.chan,
                       fate |-> strm.fate, landed |-> {}], failed)
        IN  strm' = [strm EXCEPT
                       !.pending = st.pending,
                       !.chan = st.chan,
                       !.fate = st.fate,
                       !.results = [c \in Callers |->
                                      @[c] + Cardinality({h \in st.landed : strm.pending[h].tx = c})],
                       !.events_tx = [i \in DOMAIN @ |-> @[i] + EventsSentBy(strm.block.txs, n, i)],
                       !.attempts = @ + 1,
                       !.pc = IF parse = 0 THEN "matched" ELSE "block"]
    /\ UNCHANGED <<subVars, hdr, scan, codec>>

EventTxs == [in_msg : Hashes \cup {NoMsg}, event : BOOLEAN]

EventBlocks ==
    [txs : {txs \in [1..MaxTxs -> EventTxs] :
                \A i, j \in DOMAIN txs :
                    (i # j /\ txs[i].in_msg # NoMsg) => txs[i].in_msg # txs[j].in_msg}]

\* results: how many results each caller was sent; events_tx: how often the
\* event message of each transaction was sent on the events channel
BlockInit ==
    \E block \in EventBlocks, waiting \in SUBSET Hashes :
        strm = [pc |-> "block", block |-> block, attempts |-> 0,
                pending |-> [h \in Hashes |->
                               IF h \in waiting
                               THEN NewPendingMessage(1, IF h = "h1" THEN "c1" ELSE "c2")
                               ELSE NoEntry],
                chan |-> [c \in Callers |-> "open"],
                fate |-> [c \in Callers |-> "none"],
                results |-> [c \in Callers |-> 0],
                events_tx |-> [i \in 1..MaxTxs |-> 0]]

BlockSpecInit == SubInit /\ BlockInit /\ hdr = Idle /\ scan = Idle /\ codec = Idle

BlockNext == LoopAttemptBlock

BlockSpec == BlockSpecInit /\ [][BlockNext]_vars

\* C33: the event message of a transaction is sent on the events channel at
\* most once and a pending message is sent at most one result, also when the
\* block is attempted again after a later transaction failed.
C33_EventsAndResultsAtMostOnce ==
    strm.pc \in {"block", "matched"} =>
        /\ \A i \in DOMAIN strm.events_tx : strm.events_tx[i] <= 1
        /\ \A c \in Callers : strm.results[c] <= 1

(***************************************************************************)
(* Part XX.  since_lt and current_time of a subscription                   *)
(***************************************************************************)

MaxEndLt == 3

\* GraphQlAccountSubscription::new: the fields set from the latest block
NewSubscription(last_block) ==
    [since_lt |-> last_block.end_lt,
     current_time |-> <<last_block.end_lt, last_block.timestamp>>,
     last_block_id |-> last_block.id]

StoredTimeSwapped(block_info) == <<block_info.timestamp, block_info.end_lt>>

\* (block_info.end_lt(), block_info.gen_utime().0)
StoredTime(block_info) == <<block_info.end_lt, block_info.timestamp>>

\* AccountSubscription::since_lt
SinceLt(subscription) == subscription.since_lt

\* the blocks of the chain: logical time grows from block to block, the
\* generation time does not go back
ChainBlocks == [id : 0..MaxEndLt, end_lt : 0..MaxEndLt, timestamp : 0..MaxTime]

Follows(block, last) ==
    /\ block.id = last.id + 1
    /\ block.end_lt > last.end_lt
    /\ block.timestamp >= last.timestamp

\* wait_for_next_block and get_block give the block after last_block_id
ClockFetch ==
    /\ hdr.pc = "clock"
    /\ hdr.at = "top"
    /\ \E block \in ChainBlocks :
        /\ IF hdr.fetched = None THEN Follows(block, hdr.done) ELSE block = hdr.fetched[1]
        /\ hdr' = [hdr EXCEPT !.at = "fetched", !.fetched = Some(block)]
    /\ UNCHANGED <<subVars, scan, strm, codec>>

\* lines 249-330: the transactions of the block are matched, or a failure
\* starts the iteration over
ClockMatch(parsed) ==
    /\ hdr.pc = "clock"
    /\ hdr.at = "fetched"
    /\ hdr' = [hdr EXCEPT !.at = IF parsed THEN "matched" ELSE "top"]
    /\ UNCHANGED <<subVars, scan, strm, codec>>

\* lines 341-352: the time of the block is stored and the cursor moved
ClockStore ==
    /\ hdr.pc = "clock"
    /\ hdr.at = "matched"
    /\ hdr' = [hdr EXCEPT !.subscription.current_time = StoredTime(hdr.fetched[1]),
                          !.subscription.last_block_id = hdr.fetched[1].id,
                          !.done = hdr.fetched[1],
                          !.fetched = None,
                          !.at = "top"]
    /\ UNCHANGED <<subVars, scan, strm, codec>>

\* a task reads since_lt and current_time
ClockRead ==
    /\ hdr.pc = "clock"
    /\ hdr' = [hdr EXCEPT !.read = Some([since_lt |-> SinceLt(hdr.subscription),
                                         current_time |-> AccountTime(hdr.subscription.current_time),
                                         done |-> hdr.done])]
    /\ UNCHANGED <<subVars, scan, strm, codec>>

\* done: the block processed completely last; read: what the last reader got,
\* with the block that was done then
ClockInit ==
    \E last_block \in ChainBlocks :
        /\ last_block.id = 0
        /\ last_block.end_lt < MaxEndLt
        /\ hdr = [pc |-> "clock", at |-> "top", subscription |-> NewSubscription(last_block),
                  created |-> last_block, done |-> last_block, fetched |-> None, read |-> None]

ClockSpecInit == SubInit /\ ClockInit /\ scan = Idle /\ strm = Idle /\ codec = Idle

ClockNext ==
    \/ ClockFetch
    \/ \E parsed \in BOOLEAN : ClockMatch(parsed)
    \/ ClockStore
    \/ ClockRead

ClockSpec == ClockSpecInit /\ [][ClockNext]_vars

\* C34: current_time() returns the (end_lt, gen_utime) of the block the loop
\* processed completely last, at first that of the latest block at creation;
\* it is written only once the block's transactions have been matched;
\* since_lt stays the end_lt of the block at creation and is never above the lt
\* current_time() returns.
C34_CurrentTimeIsOfTheLastProcessedBlock ==
    /\ [](hdr.pc = "clock" =>
            /\ hdr.subscription.current_time = <<hdr.done.end_lt, hdr.done.timestamp>>
            /\ hdr.subscription.since_lt = hdr.created.end_lt
            /\ hdr.read # None =>
                 /\ hdr.read[1].current_time
                        = <<hdr.read[1].done.end_lt, hdr.read[1].done.timestamp>>
                 /\ hdr.read[1].since_lt = hdr.created.end_lt
                 /\ hdr.read[1].since_lt <= hdr.read[1].current_time[1])
    /\ [][hdr.subscription.current_time # hdr'.subscription.current_time =>
            /\ hdr.at = "matched"
            /\ hdr'.subscription.current_time
                    = <<hdr.fetched[1].end_lt, hdr.fetched[1].timestamp>>]_vars

\* a reader got the time of the second block while the third is being matched
C34_Witness ==
    /\ hdr.pc = "clock"
    /\ hdr.at = "fetched"
    /\ hdr.read # None
    /\ hdr.read[1].done.id = 1
    /\ hdr.read[1].current_time[1] > hdr.read[1].since_lt
    /\ hdr.read[1].current_time[2] > hdr.read[1].current_time[1]
    /\ hdr.fetched[1].id = 2

(***************************************************************************)
(* Part XXI.  What a rescan stream emits                                   *)
(***************************************************************************)

\* C35: with since_lt = Some(s) a rescan stream never emits an item whose lt is
\* below s; such items are skipped, and the stream goes on after skipping: it
\* ends only on a page request answered with nothing.
C35_NothingBelowSinceLt ==
    scan.pc \in {"scanning", "ended"} =>
        /\ (scan.poll = "ReadySome" /\ scan.since_lt # None)
                => scan.item.lt >= scan.since_lt[1]
        /\ scan.pc = "ended" =>
            /\ scan.poll = "ReadyNone"
            /\ scan.request_fut # None
            /\ scan.request_fut[1].state = "ready"
            /\ poll_request_fut(scan.request_fut[1]) = <<>>

\* a message below since_lt was skipped and the stream has asked for the next
\* page
C35_Witness ==
    /\ scan.pc = "scanning"
    /\ scan.since_lt # None
    /\ scan.until_lt # None
    /\ scan.until_lt[1] > 0
    /\ scan.until_lt[1] < scan.since_lt[1]
    /\ scan.request_fut # None
    /\ scan.request_fut[1].end_lt = scan.until_lt
    /\ scan.requests >= 2
    /\ scan.poll = "Pending"

\* the page request of the scanner has failed and the scanner has not been
\* polled since
RequestFailed ==
    /\ scan.pc = "scanning"
    /\ scan.request_fut # None
    /\ scan.request_fut[1].state = "ready"
    /\ scan.request_fut[1].result # "Ok"

\* C36: the poll that finds the page request failed emits the transport error
\* as an Err item, once, whatever since_lt is, and leaves since_lt and until_lt
\* as they were before the failure for the request that follows.
C36_FailureIsOneErrItem ==
    [][RequestFailed =>
          /\ scan'.poll = "ReadySome"
          /\ scan'.item.data = scan.request_fut[1].result
          /\ scan'.messages # None
          /\ scan'.current_message = Len(scan'.messages[1])
          /\ scan'.since_lt = scan.since_lt
          /\ scan'.until_lt = scan.until_lt]_vars

(***************************************************************************)
(* Part XXII.  A rescan stream read to its end                             *)
(***************************************************************************)

\* the consumer polls the stream and keeps what it is given
RescanPollNext ==
    /\ scan.pc = "rescan"
    /\ LET polled == handle_state([scan EXCEPT !.pc = "scanning"])
       IN  scan' = [polled EXCEPT
                      !.pc = IF polled.pc = "scanning" THEN "rescan" ELSE "rescanned",
                      !.emitted = IF polled.poll = "ReadySome"
                                  THEN Append(@, polled.item.id) ELSE @]
    /\ UNCHANGED <<subVars, hdr, strm, codec>>

\* the node answers the request with a page
RescanRespond ==
    /\ scan.pc = "rescan"
    /\ scan.request_fut # None
    /\ scan.request_fut[1].state = "sent"
    /\ \E page \in Pages(scan.chain, scan.request_fut[1]) :
        scan' = [scan EXCEPT
            !.request_fut = Some([@[1] EXCEPT !.state = "ready", !.result = "Ok",
                                              !.response = page]),
            !.outstanding = @ - 1]
    /\ UNCHANGED <<subVars, hdr, strm, codec>>

\* rescan_events / rescan_events_full; bounds: the bounds the stream was made
\* with, emitted: the messages the consumer was given, in order
RescanInit ==
    \E chain \in Chains, since_lt, until_lt \in {None} \cup {Some(lt) : lt \in Lts} :
        scan = [pc |-> "rescan", chain |-> chain,
                since_lt |-> since_lt, until_lt |-> until_lt,
                request_fut |-> None, messages |-> None, current_message |-> 0,
                poll |-> "none", item |-> NoItem,
                outstanding |-> 0, requests |-> 0, failures |-> 0,
                created |-> [buffered |-> FALSE, pending |-> FALSE],
                bounds |-> [since_lt |-> since_lt, until_lt |-> until_lt],
                emitted |-> <<>>]

RescanSpecInit == SubInit /\ hdr = Idle /\ RescanInit /\ strm = Idle /\ codec = Idle

RescanNext == RescanPollNext \/ RescanRespond

RescanSpec == RescanSpecInit /\ [][RescanNext]_vars

\* the messages of the chain within the bounds
InBounds(chain, bounds) ==
    {i \in 1..Len(chain) :
        /\ bounds.since_lt = None \/ chain[i] >= bounds.since_lt[1]
        /\ bounds.until_lt = None \/ chain[i] < bounds.until_lt[1]}

\* C37: a rescan stream emits no message twice and none outside its bounds,
\* and when it ends, on an empty page, it has emitted every outbound message
\* with since_lt <= lt < until_lt, messages of one transaction lt on different
\* pages included.
C37_EveryMessageExactlyOnce ==
    scan.pc \in {"rescan", "rescanned"} =>
        /\ \A i, j \in 1..Len(scan.emitted) : scan.emitted[i] = scan.emitted[j] => i = j
        /\ Range(scan.emitted) \subseteq InBounds(scan.chain, scan.bounds)
        /\ scan.pc = "rescanned" =>
            /\ Range(scan.emitted) = InBounds(scan.chain, scan.bounds)
            /\ poll_request_fut(scan.request_fut[1]) = <<>>

(***************************************************************************)
(* Part XXIII.  The `last` flag of parse_eth_event_data                    *)
(***************************************************************************)

\* C38: parse_eth_event_data passes last = true to the T-ABI value reader
\* exactly for the parameter in the final position of the ABI, also when an
\* earlier parameter has the same type as the final one.
C38_LastIsTheFinalPosition ==
    codec.pc = "decoded" =>
        \A i \in 1..Len(codec.flags) : codec.flags[i] <=> (i = Len(codec.ton_abi))

(***************************************************************************)
(* Part XXIV.  The pending-map lock and the current-time lock              *)
(*                                                                         *)
(* Both are RwLocks that serve their waiters in arrival order.  A lock is  *)
(* its writers (at most one), its readers and its queue of waiters.        *)
(***************************************************************************)
Senders == {"send_message_1", "send_message_2"}

Readers == {"current_time_1", "current_time_2"}

LockTasks == {"start_loop"} \cup Senders \cup Readers

NewRwLock == [writers |-> {}, readers |-> {}, queue |-> <<>>]

\* lock.write() / lock.read() is called: the task joins the waiters
Enqueue(lock, task, mode) ==
    [lock EXCEPT !.queue = Append(@, [task |-> task, mode |-> mode])]

\* the first waiter can be given the lock
CanAcquire(lock, task) ==
    /\ lock.queue # <<>>
    /\ Head(lock.queue).task = task
    /\ lock.writers = {}
    /\ Head(lock.queue).mode = "write" => lock.readers = {}

\* .await of write() / read() returns the guard
Acquired(lock, task) ==
    IF Head(lock.queue).mode = "write"
    THEN [lock EXCEPT !.queue = Tail(@), !.writers = {task}]
    ELSE [lock EXCEPT !.queue = Tail(@), !.readers = @ \cup {task}]

\* a guard that is never dropped
DropGuardLeaks(lock, task) == lock

\* the guard goes out of scope
DropGuard(lock, task) ==
    [lock EXCEPT !.writers = @ \ {task}, !.readers = @ \ {task}]

Holds(lock, task) == task \in lock.writers \cup lock.readers

Waits(lock, task) == \E i \in 1..Len(lock.queue) : lock.queue[i].task = task

\* start_loop: `subscription.pending_messages.write().await` is reached
LockLoopWantPending ==
    /\ hdr.pc = "locks"
    /\ hdr.at["start_loop"] = "idle"
    /\ hdr' = [hdr EXCEPT !.at["start_loop"] = "wait_pending",
                          !.pending_messages = Enqueue(@, "start_loop", "write")]
    /\ UNCHANGED <<subVars, scan, strm, codec>>

\* a task is given the pending-map lock
LockAcquirePending(task) ==
    /\ hdr.pc = "locks"
    /\ hdr.at[task] = "wait_pending"
    /\ CanAcquire(hdr.pending_messages, task)
    /\ hdr' = [hdr EXCEPT !.at[task] = "has_pending",
                          !.pending_messages = Acquired(@, task)]
    /\ UNCHANGED <<subVars, scan, strm, codec>>

\* start_loop: a transaction fails to parse, `continue 'subscription_loop`
LockLoopParseFails ==
    /\ hdr.pc = "locks"
    /\ hdr.at["start_loop"] = "has_pending"
    /\ hdr' = [hdr EXCEPT !.at["start_loop"] = "idle",
                          !.pending_messages = DropGuard(@, "start_loop")]
    /\ UNCHANGED <<subVars, scan, strm, codec>>

\* start_loop: `subscription.current_time.write().await` is reached with the
\* pending-map guard alive
LockLoopWantTime ==
    /\ hdr.pc = "locks"
    /\ hdr.at["start_loop"] = "has_pending"
    /\ hdr' = [hdr EXCEPT !.at["start_loop"] = "wait_time",
                          !.current_time = Enqueue(@, "start_loop", "write")]
    /\ UNCHANGED <<subVars, scan, strm, codec>>

\* start_loop is given the current-time lock
LockLoopAcquireTime ==
    /\ hdr.pc = "locks"
    /\ hdr.at["start_loop"] = "wait_time"
    /\ CanAcquire(hdr.current_time, "start_loop")
    /\ hdr' = [hdr EXCEPT !.at["start_loop"] = "has_both",
                          !.current_time = Acquired(@, "start_loop")]
    /\ UNCHANGED <<subVars, scan, strm, codec>>

\* start_loop: the time is stored and the temporary write guard is dropped
LockLoopStoreTime ==
    /\ hdr.pc = "locks"
    /\ hdr.at["start_loop"] = "has_both"
    /\ hdr' = [hdr EXCEPT !.at["start_loop"] = "stored",
                          !.current_time = DropGuard(@, "start_loop")]
    /\ UNCHANGED <<subVars, scan, strm, codec>>

\* start_loop: retain, and the pending-map guard is dropped as the iteration
\* ends
LockLoopRetain ==
    /\ hdr.pc = "locks"
    /\ hdr.at["start_loop"] = "stored"
    /\ hdr' = [hdr EXCEPT !.at["start_loop"] = "idle",
                          !.pending_messages = DropGuard(@, "start_loop")]
    /\ UNCHANGED <<subVars, scan, strm, codec>>

\* send_message: `self.pending_messages.write().await` is reached
LockSendWantPending(task) ==
    /\ hdr.pc = "locks"
    /\ hdr.at[task] = "idle"
    /\ hdr' = [hdr EXCEPT !.at[task] = "wait_pending",
                          !.pending_messages = Enqueue(@, task, "write")]
    /\ UNCHANGED <<subVars, scan, strm, codec>>

\* send_message: the entry is inserted, or send_message_raw fails, or the hash
\* is a duplicate; the block ends and the guard is dropped
LockSendLeaves(task) ==
    /\ hdr.pc = "locks"
    /\ hdr.at[task] = "has_pending"
    /\ hdr' = [hdr EXCEPT !.at[task] = "idle",
                          !.pending_messages = DropGuard(@, task)]
    /\ UNCHANGED <<subVars, scan, strm, codec>>

\* current_time: `self.current_time.read().await` is reached
LockReadWantTime(task) ==
    /\ hdr.pc = "locks"
    /\ hdr.at[task] = "idle"
    /\ hdr' = [hdr EXCEPT !.at[task] = "wait_time",
                          !.current_time = Enqueue(@, task, "read")]
    /\ UNCHANGED <<subVars, scan, strm, codec>>

\* current_time is given the read guard
LockReadAcquireTime(task) ==
    /\ hdr.pc = "locks"
    /\ hdr.at[task] = "wait_time"
    /\ CanAcquire(hdr.current_time, task)
    /\ hdr' = [hdr EXCEPT !.at[task] = "has_time",
                          !.current_time = Acquired(@, task)]
    /\ UNCHANGED <<subVars, scan, strm, codec>>

\* current_time: the pair is copied out and the temporary read guard dropped
LockReadLeaves(task) ==
    /\ hdr.pc = "locks"
    /\ hdr.at[task] = "has_time"
    /\ hdr' = [hdr EXCEPT !.at[task] = "idle",
                          !.current_time = DropGuard(@, task)]
    /\ UNCHANGED <<subVars, scan, strm, codec>>

LockInit ==
    hdr = [pc |-> "locks", at |-> [task \in LockTasks |-> "idle"],
           pending_messages |-> NewRwLock, current_time |-> NewRwLock]

LockSpecInit == SubInit /\ LockInit /\ scan = Idle /\ strm = Idle /\ codec = Idle

\* the steps a task takes once it has asked for a lock
LockProgress ==
    \/ \E task \in Senders \cup {"start_loop"} : LockAcquirePending(task)
    \/ LockLoopParseFails
    \/ LockLoopWantTime
    \/ LockLoopAcquireTime
    \/ LockLoopStoreTime
    \/ LockLoopRetain
    \/ \E task \in Senders : LockSendLeaves(task)
    \/ \E task \in Readers : LockReadAcquireTime(task)
    \/ \E task \in Readers : LockReadLeaves(task)

LockNext ==
    \/ LockLoopWantPending
    \/ \E task \in Senders : LockSendWantPending(task)
    \/ \E task \in Readers : LockReadWantTime(task)
    \/ LockProgress

\* a task that can take a step takes one
LockFairness ==
    /\ \A task \in Senders \cup {"start_loop"} : WF_vars(LockAcquirePending(task))
    /\ WF_vars(LockLoopParseFails \/ LockLoopWantTime)
    /\ WF_vars(LockLoopAcquireTime)
    /\ WF_vars(LockLoopStoreTime)
    /\ WF_vars(LockLoopRetain)
    /\ \A task \in Senders : WF_vars(LockSendLeaves(task))
    /\ \A task \in Readers : WF_vars(LockReadAcquireTime(task))
    /\ \A task \in Readers : WF_vars(LockReadLeaves(task))

LockSpec == LockSpecInit /\ [][LockNext]_vars /\ LockFairness

\* the loop is the only task with both locks, it takes the pending-map lock
\* first, and every other task has to do with one lock at a time
LockOrder ==
    hdr.pc = "locks" =>
        /\ \A task \in LockTasks \ {"start_loop"} :
            /\ ~(Holds(hdr.pending_messages, task) /\ Holds(hdr.current_time, task))
            /\ ~(Holds(hdr.pending_messages, task) /\ Waits(hdr.current_time, task))
            /\ ~(Holds(hdr.current_time, task) /\ Waits(hdr.pending_messages, task))
        /\ Holds(hdr.current_time, "start_loop") \/ Waits(hdr.current_time, "start_loop")
                => Holds(hdr.pending_messages, "start_loop")

\* C39: no interleaving of send_message callers, current_time readers and the
\* subscription loop deadlocks on the two locks: the loop alone holds both and
\* takes the pending-map lock first, every other task holds at most one, and
\* every task that waits for a lock is given it.
C39_NoDeadlockOnTheTwoLocks ==
    /\ []LockOrder
    /\ \A task \in LockTasks :
        /\ Waits(hdr.pending_messages, task) ~> Holds(hdr.pending_messages, task)
        /\ Waits(hdr.current_time, task) ~> Holds(hdr.current_time, task)

\* the loop holds both locks while a sender waits for the pending map and a
\* reader for the current time
C39_Witness ==
    /\ hdr.pc = "locks"
    /\ hdr.at["start_loop"] = "has_both"
    /\ \E task \in Senders : Waits(hdr.pending_messages, task)
    /\ \E task \in Readers : Waits(hdr.current_time, task)

(***************************************************************************)
(* Part XXV.  State::finalize                                              *)
(***************************************************************************)
\* calls of finalize followed
MaxFinalizeCalls == 5

\* enum BridgeState
Uninitialized == [kind |-> "Uninitialized"]

Locked == [kind |-> "Locked"]

Running(bridge) == [kind |-> "Running", bridge |-> bridge]

RelayConfigs == {"config_a", "config_b"}

KeyDatas == {"keys_a", "keys_b"}

\* what make_bridge(state_manager, config, key_data).await can return: the
\* bridge built of the arguments, or an error
MakeBridgeOutcomes(config, key_data, serial) ==
    {[kind |-> "Ok", bridge |-> <<config, key_data, serial>>],
     Err("make_bridge: connection failed"), Err("make_bridge: bad keys")}

\* finalize that resets the state when the bridge cannot be made
finalize_resetting(bridge_state, made) ==
    IF made.kind = "Err"
    THEN [bridge_state |-> Uninitialized, returned |-> made]
    ELSE [bridge_state |-> Running(made.bridge), returned |-> [kind |-> "Ok"]]

\* State::finalize, given what make_bridge returned
finalize(bridge_state, made) ==
    IF made.kind = "Err"
    THEN [bridge_state |-> bridge_state, returned |-> made]
    ELSE [bridge_state |-> Running(made.bridge), returned |-> [kind |-> "Ok"]]

\* state.finalize(config, key_data).await
StateFinalize ==
    /\ strm.pc = "state"
    /\ strm.calls < MaxFinalizeCalls
    /\ \E config \in RelayConfigs, key_data \in KeyDatas :
        \E made \in MakeBridgeOutcomes(config, key_data, strm.calls + 1) :
            LET done == finalize(strm.bridge_state, made)
            IN  strm' = [strm EXCEPT !.bridge_state = done.bridge_state,
                                     !.returned = done.returned,
                                     !.made = made,
                                     !.calls = @ + 1]
    /\ UNCHANGED <<subVars, hdr, scan, codec>>

StateInit ==
    \E bridge_state \in {Uninitialized, Locked, Running(<<"config_a", "keys_a", 0>>)} :
        strm = [pc |-> "state", bridge_state |-> bridge_state,
                returned |-> NoValue, made |-> NoValue, calls |-> 0]

StateSpecInit == SubInit /\ hdr = Idle /\ scan = Idle /\ StateInit /\ codec = Idle

StateNext == StateFinalize

StateSpec == StateSpecInit /\ [][StateNext]_vars

\* C40: finalize moves bridge_state to Running only when the bridge was made;
\* when making it fails the error is returned and bridge_state keeps its
\* value, and a Running state is never moved back to Locked or Uninitialized.
C40_RunningOnlyOnSuccess ==
    [][strm.pc = "state" =>
          /\ strm'.made.kind = "Ok" =>
                /\ strm'.bridge_state = Running(strm'.made.bridge)
                /\ strm'.returned.kind = "Ok"
          /\ strm'.made.kind = "Err" =>
                /\ strm'.returned = strm'.made
                /\ strm'.bridge_state = strm.bridge_state
          /\ strm'.bridge_state # strm.bridge_state => strm'.made.kind = "Ok"
          /\ strm.bridge_state.kind = "Running" => strm'.bridge_state.kind = "Running"]_vars

\* a failed finalize has left Locked in place, and another one Running
C40_Witness ==
    /\ strm.pc = "state"
    /\ strm.calls >= 1
    /\ strm.returned.kind = "Err"
    /\ strm.bridge_state.kind \in {"Locked", "Running"}

====
